---- MODULE Spec2Model ----
(***************************************************************************)
(* A model of the Concur profile SDK (src/concur_profile_sdk.py, with the  *)
(* older src/concur_profile_sdk_improved.py where the two differ):         *)
(*   - the session manager of ConcurSDK (token, geolocation, expiry, the   *)
(*     retry after a 401) and the facade operations built on it;           *)
(*   - the travel-profile encoder (to_update_xml / _add_sections_to_xml).  *)
(* Time is counted in ticks, TicksPerSecond ticks to the second, so that   *)
(* datetime.now().replace(microsecond=0) is a real truncation.             *)
(***************************************************************************)
EXTENDS Integers, Sequences, FiniteSets, TLC

VARIABLES
    config,     \* the constructor's arguments, as "was it supplied": refresh_token, username, password, company_id
    session,    \* _access_token, _geolocation, _identity_base_url, _token_expiry
    now,        \* datetime.now(), in ticks
    last,       \* what the operation that just returned did (op = "idle": none pending)
    lastAuth,   \* when the last successful _authenticate ran, and the expires_in it was given
    cls,        \* which profile class is encoded: "TravelProfile" or "UserProfile"
    profile,    \* the profile entity (field name -> how far it is populated; its fields in SpecFields)
    request,    \* fields_to_update: None, or a list of field names
    doc,        \* the encoded document's root children, in order; None before encoding
    decoded,    \* what _parse_travel_profile_xml made of doc; None before decoding
    callers     \* the threads inside _ensure_authenticated / _authenticate: where each is, what it was answered

vars == <<config, session, now, last, lastAuth, cls, profile, request, doc, decoded, callers>>

sessionVars == <<config, session, now, last, lastAuth, callers>>

codecVars == <<cls, profile, request, doc, decoded>>

(***************************************************************************)
(* Bounds of the model.                                                    *)
(***************************************************************************)
MaxTime == 2

TicksPerSecond == 2

(***************************************************************************)
(* Python's Optional: None is the empty sequence, a value x is <<x>>.      *)
(***************************************************************************)
None == <<>>

Some(x) == <<x>>

(***************************************************************************)
(* HTTP statuses the code tests for, and the margin taken off expires_in.  *)
(***************************************************************************)
HTTP_OK == 200

HTTP_CREATED == 201

HTTP_UNAUTHORIZED == 401

HTTP_NOT_FOUND == 404

ExpiryMargin == 60

\* requests raised a RequestException: there is no response
NoResponse == 0

Statuses == {HTTP_OK, HTTP_CREATED, HTTP_UNAUTHORIZED, HTTP_NOT_FOUND, 500}

Responses == Statuses \cup {NoResponse}

(***************************************************************************)
(* The token endpoint's answers.  "ok" carries access_token, geolocation   *)
(* and expires_in; "no_*" is a 200 whose JSON lacks that key (and the keys *)
(* read before it are present); "http_error" is a status that              *)
(* raise_for_status rejects; "transport_error" is requests.post raising.   *)
(***************************************************************************)
ExpiresInValues == {60, 61}

TokenFailures == {"http_error", "transport_error", "no_access_token", "no_geolocation", "no_expires_in"}

TokenResponses ==
    {[kind |-> "ok", expires_in |-> e] : e \in ExpiresInValues}
    \cup {[kind |-> k, expires_in |-> 0] : k \in TokenFailures}

NoTokenResponse == [kind |-> "unused", expires_in |-> 0]

\* The token endpoint issues a token that differs from the one held; the
\* tenant's geolocation is issued with it.
NextTokenId(s) == IF s.access_token = Some(1) THEN 2 ELSE 1

Configs == [refresh_token : BOOLEAN, username : BOOLEAN, password : BOOLEAN, company_id : BOOLEAN]

NoSession == [access_token |-> None, geolocation |-> None, identity_base_url |-> None, token_expiry |-> None]

(***************************************************************************)
(* ConcurSDK._ensure_authenticated: the condition under which it calls     *)
(* _authenticate.                                                          *)
(***************************************************************************)
ensure_authenticated_gt(s, t) ==
    \/ s.access_token = None
    \/ (s.token_expiry # None /\ t > s.token_expiry[1])

ensure_authenticated(s, t) ==
    \/ s.access_token = None
    \/ (s.token_expiry # None /\ t >= s.token_expiry[1])

(***************************************************************************)
(* ConcurSDK._authenticate.                                                *)
(***************************************************************************)
grant_type_either(cfg) ==
    IF cfg.refresh_token THEN "refresh_token"
    ELSE IF cfg.username \/ cfg.password THEN "password"
    ELSE "client_credentials"

grant_type(cfg) ==
    IF cfg.refresh_token THEN "refresh_token"
    ELSE IF cfg.username /\ cfg.password THEN "password"
    ELSE "client_credentials"

\* datetime.now().replace(microsecond=0)
replace_microsecond(t) == (t \div TicksPerSecond) * TicksPerSecond

token_expiry(t, expires_in) ==
    replace_microsecond(t) + (expires_in - ExpiryMargin) * TicksPerSecond

\* f"{self._geolocation}/profile/identity/v4"
identity_base_url(geolocation) == <<geolocation, "/profile/identity/v4">>

\* One call of _authenticate on session s at time t, the token endpoint
\* answering resp: the statements run in order until one raises.
authenticate(cfg, s, resp, t) ==
    LET id == NextTokenId(s)
        s1 == [s EXCEPT !.access_token = Some(id)]
        s2 == [s1 EXCEPT !.geolocation = Some(id)]
        s3 == [s2 EXCEPT !.identity_base_url = Some(identity_base_url(id))]
        s4 == [s3 EXCEPT !.token_expiry = Some(token_expiry(t, resp.expires_in))]
        entry == [kind |-> resp.kind, expires_in |-> resp.expires_in,
                  grant |-> grant_type(cfg), posts |-> 1,
                  before |-> s, after |-> s, exc |-> "none"]
    IN  CASE resp.kind \in {"http_error", "transport_error"} ->
                [entry EXCEPT !.exc = "AuthenticationError"]
          [] resp.kind = "no_access_token" ->
                [entry EXCEPT !.exc = "KeyError"]
          [] resp.kind = "no_geolocation" ->
                [entry EXCEPT !.after = s1, !.exc = "KeyError"]
          [] resp.kind = "no_expires_in" ->
                [entry EXCEPT !.after = s3, !.exc = "KeyError"]
          [] OTHER ->
                [entry EXCEPT !.after = s4]

(***************************************************************************)
(* The transport wrappers.  env is what the network answers during one     *)
(* call of a wrapper: tok1 to the _authenticate of _ensure_authenticated,  *)
(* st1 to the request, tok2 to the _authenticate after a 401, st2 to the   *)
(* request sent again; body is the body of the response handed back.       *)
(* A wrapper's result records the session it found (pre) and left          *)
(* (session), whether _ensure_authenticated authenticated (ensured), each  *)
(* _authenticate it ran (auths), each request it sent (calls), and either  *)
(* the exception it raised (exc) or the response it returned.              *)
(***************************************************************************)
request_with_retry_any_error(cfg, r0, t, env) ==
    IF env.st1 = NoResponse THEN
        [r0 EXCEPT !.exc = "ConcurProfileError", !.calls = <<NoResponse>>]
    ELSE IF env.st1 \notin {HTTP_OK, HTTP_CREATED, HTTP_NOT_FOUND} THEN
        LET a2 == authenticate(cfg, r0.session, env.tok2, t)
            r1 == [r0 EXCEPT !.session = a2.after, !.auths = r0.auths \o <<a2>>,
                             !.calls = <<env.st1>>]
        IN  IF a2.exc # "none" THEN [r1 EXCEPT !.exc = a2.exc]
            ELSE IF env.st2 = NoResponse THEN
                [r1 EXCEPT !.exc = "ConcurProfileError", !.calls = <<env.st1, NoResponse>>]
            ELSE [r1 EXCEPT !.status = env.st2, !.body = env.body,
                            !.calls = <<env.st1, env.st2>>]
    ELSE [r0 EXCEPT !.status = env.st1, !.body = env.body, !.calls = <<env.st1>>]

\* the try block of both wrappers: send, and on a 401 authenticate and send again
request_with_retry(cfg, r0, t, env) ==
    IF env.st1 = NoResponse THEN
        [r0 EXCEPT !.exc = "ConcurProfileError", !.calls = <<NoResponse>>]
    ELSE IF env.st1 = HTTP_UNAUTHORIZED THEN
        LET a2 == authenticate(cfg, r0.session, env.tok2, t)
            r1 == [r0 EXCEPT !.session = a2.after, !.auths = r0.auths \o <<a2>>,
                             !.calls = <<env.st1>>]
        IN  IF a2.exc # "none" THEN [r1 EXCEPT !.exc = a2.exc]
            ELSE IF env.st2 = NoResponse THEN
                [r1 EXCEPT !.exc = "ConcurProfileError", !.calls = <<env.st1, NoResponse>>]
            ELSE [r1 EXCEPT !.status = env.st2, !.body = env.body,
                            !.calls = <<env.st1, env.st2>>]
    ELSE [r0 EXCEPT !.status = env.st1, !.body = env.body, !.calls = <<env.st1>>]

\* the wrapper's first line, self._ensure_authenticated()
enter_request(api, cfg, s, t, env) ==
    LET need == ensure_authenticated(s, t)
        a1 == authenticate(cfg, s, env.tok1, t)
    IN  [api |-> api, pre |-> s, at |-> t, ensured |-> need,
         session |-> IF need THEN a1.after ELSE s,
         auths |-> IF need THEN <<a1>> ELSE <<>>,
         exc |-> IF need THEN a1.exc ELSE "none",
         calls |-> <<>>, status |-> NoResponse, body |-> "none"]

make_identity_request(cfg, s, t, env) ==
    LET r0 == enter_request("identity", cfg, s, t, env)
    IN  IF r0.exc # "none" THEN r0
        ELSE IF r0.session.identity_base_url = None THEN
            [r0 EXCEPT !.exc = "AuthenticationError"]
        ELSE request_with_retry(cfg, r0, t, env)

make_travel_profile_request(cfg, s, t, env) ==
    LET r0 == enter_request("travel", cfg, s, t, env)
    IN  IF r0.exc # "none" THEN r0
        ELSE request_with_retry(cfg, r0, t, env)

(***************************************************************************)
(* The facade operations of ConcurSDK.  Each yields the session it leaves, *)
(* its outcome as the caller sees it ("ok", "no_match" for a None result,  *)
(* or the class of the exception raised) and the wrapper calls it made.    *)
(* A response body is "valid", "malformed" (it does not parse), "empty"    *)
(* (a search result with no Resources), "company" / "company_nosub" (a     *)
(* Company resource from /me, the token's JWT with / without a sub),       *)
(* "unknown_type" (any other resourceType), "invalid_user" (it holds the   *)
(* "Invalid User" marker) or "error_doc" (an error document with the       *)
(* server's message).  message is what the text of the exception carries,  *)
(* where the model follows it.                                             *)
(***************************************************************************)
Outcome(r, outcome) ==
    [session |-> r.session, outcome |-> outcome, reqs |-> <<r>>, message |-> "none"]

Local(s, outcome) == [session |-> s, outcome |-> outcome, reqs |-> <<>>, message |-> "none"]

get_user_identity_by_id(cfg, s, t, env) ==
    LET r == make_identity_request(cfg, s, t, env)
    IN  Outcome(r,
            IF r.exc # "none" THEN "ConcurProfileError"
            ELSE IF r.status = HTTP_OK THEN
                IF r.body = "malformed" THEN "ConcurProfileError" ELSE "ok"
            ELSE IF r.status = HTTP_NOT_FOUND THEN "ProfileNotFoundError"
            ELSE "ConcurProfileError")

get_current_user_identity(cfg, s, t, env, env2) ==
    LET r == make_identity_request(cfg, s, t, env)
        byId == get_user_identity_by_id(cfg, r.session, t, env2)
    IN  IF r.exc # "none" THEN
            Outcome(r, IF r.exc = "KeyError" THEN "ConcurProfileError" ELSE r.exc)
        ELSE IF r.status # HTTP_OK THEN Outcome(r, "ConcurProfileError")
        ELSE IF r.body = "malformed" THEN Outcome(r, "ConcurProfileError")
        ELSE IF r.body = "company" THEN
            [session |-> byId.session,
             outcome |-> IF byId.outcome = "ProfileNotFoundError"
                         THEN "AuthenticationError" ELSE byId.outcome,
             reqs |-> <<r>> \o byId.reqs, message |-> "none"]
        ELSE IF r.body = "company_nosub" THEN Outcome(r, "AuthenticationError")
        ELSE IF r.body = "unknown_type" THEN Outcome(r, "ValidationError")
        ELSE Outcome(r, "ok")

\* a search without a match raising instead of returning None
find_user_by_username_raising(cfg, s, t, env) ==
    LET r == make_identity_request(cfg, s, t, env)
    IN  Outcome(r,
            IF r.exc # "none" THEN
                IF r.exc = "KeyError" THEN "ConcurProfileError" ELSE r.exc
            ELSE IF r.status = HTTP_OK THEN
                IF r.body = "malformed" THEN "ConcurProfileError"
                ELSE IF r.body = "empty" THEN "ProfileNotFoundError"
                ELSE "ok"
            ELSE "ConcurProfileError")

\* "multiple": more than one resource, the first of which is returned
find_user_by_username(cfg, s, t, env) ==
    LET r == make_identity_request(cfg, s, t, env)
    IN  Outcome(r,
            IF r.exc # "none" THEN
                IF r.exc = "KeyError" THEN "ConcurProfileError" ELSE r.exc
            ELSE IF r.status = HTTP_OK THEN
                IF r.body = "malformed" THEN "ConcurProfileError"
                ELSE IF r.body = "empty" THEN "no_match"
                ELSE IF r.body = "valid" THEN "ok"
                ELSE "ok"
            ELSE "ConcurProfileError")

\* user: which of user_name, name.given_name, name.family_name and
\* enterprise_info.company_id the IdentityUser carries
create_user_identity(cfg, s, t, env, user) ==
    LET company_id == IF ~user.company_id /\ cfg.company_id THEN TRUE ELSE user.company_id
        r == make_identity_request(cfg, s, t, env)
    IN  IF ~company_id THEN Local(s, "ConcurProfileError")
        ELSE Outcome(r,
            IF r.exc # "none" THEN "ConcurProfileError"
            ELSE IF r.status = HTTP_CREATED THEN
                IF r.body = "malformed" THEN "ConcurProfileError" ELSE "ok"
            ELSE "ConcurProfileError")

get_current_user_travel_profile(cfg, s, t) == Local(s, "AuthenticationError")

\* An "invalid_user" body is the backend's error document: well-formed XML
\* without a profile section, which _parse_travel_profile_xml turns into a
\* TravelProfile of defaults.
get_travel_profile(cfg, s, t, env) ==
    LET r == make_travel_profile_request(cfg, s, t, env)
    IN  Outcome(r,
            IF r.exc # "none" THEN "ConcurProfileError"
            ELSE IF r.status = HTTP_OK THEN
                IF r.body = "malformed" THEN "ConcurProfileError" ELSE "ok"
            ELSE IF r.status = HTTP_NOT_FOUND THEN "ProfileNotFoundError"
            ELSE "ConcurProfileError")

\* ApiError.from_xml(response.text).message: the text of the error document
\* ("error_doc"), "Unknown error" for any other document, or the parse failure
ApiError_from_xml(body) ==
    CASE body = "error_doc" -> "server_message"
      [] body = "malformed" -> "parse_failure"
      [] OTHER -> "unknown_error"

\* try: raise ConcurProfileError(message)  except: raise ConcurProfileError(fallback)
\* -- the bare except catches the ConcurProfileError raised in its own try block
raise_in_bare_except(message, fallback) == fallback

\* the message of the ConcurProfileError raised on a status other than 200
update_failure_message(r) == raise_in_bare_except(ApiError_from_xml(r.body), "http_status")

update_travel_profile_late_check(cfg, s, t, env, login_id) ==
    LET r == make_travel_profile_request(cfg, s, t, env)
    IN  Outcome(r,
            IF ~login_id THEN "ValidationError"
            ELSE IF r.exc # "none" THEN r.exc
            ELSE IF r.status = HTTP_NOT_FOUND \/ r.body = "invalid_user"
                THEN "ProfileNotFoundError"
            ELSE IF r.status # HTTP_OK THEN "ConcurProfileError"
            ELSE "ok")

\* login_id: whether profile.login_id is non-empty
update_travel_profile(cfg, s, t, env, login_id) ==
    LET r == make_travel_profile_request(cfg, s, t, env)
        failed == r.exc = "none" /\ r.status # HTTP_NOT_FOUND /\ r.body # "invalid_user"
                  /\ r.status # HTTP_OK
    IN  IF ~login_id THEN Local(s, "ValidationError")
        ELSE [Outcome(r,
                IF r.exc # "none" THEN r.exc
                ELSE IF r.status = HTTP_NOT_FOUND \/ r.body = "invalid_user"
                    THEN "ProfileNotFoundError"
                ELSE IF r.status # HTTP_OK THEN "ConcurProfileError"
                ELSE "ok")
              EXCEPT !.message = IF failed THEN update_failure_message(r) ELSE "none"]

(***************************************************************************)
(* What the network may answer during one operation.  Only the answers the *)
(* operation gets to read vary; the others are held at a fixed value.      *)
(***************************************************************************)
Ops == {"get_current_user_identity", "get_user_identity_by_id", "find_user_by_username",
        "create_user_identity", "get_travel_profile", "update_travel_profile"}

BodiesOf(op) ==
    CASE op = "get_current_user_identity" ->
            {"valid", "company", "company_nosub", "unknown_type", "malformed"}
      [] op = "find_user_by_username" -> {"valid", "multiple", "empty", "malformed"}
      [] op = "update_travel_profile" -> {"valid", "invalid_user", "error_doc", "malformed"}
      [] op = "get_travel_profile" -> {"valid", "malformed", "invalid_user"}
      [] OTHER -> {"valid", "malformed"}

\* the statuses whose body the operation reads
BodyStatusesOf(op) ==
    CASE op = "create_user_identity" -> {HTTP_CREATED}
      [] op \in {"update_travel_profile", "get_travel_profile"} -> Statuses
      [] OTHER -> {HTTP_OK}

ResponsesOf(op) ==
    IF op \in {"create_user_identity", "update_travel_profile"}
    THEN Responses ELSE Responses \ {HTTP_CREATED}

UnusedEnv == [tok1 |-> NoTokenResponse, st1 |-> NoResponse, tok2 |-> NoTokenResponse,
              st2 |-> NoResponse, body |-> "valid"]

AuthenticatedEnvs(op) ==
    {[UnusedEnv EXCEPT !.st1 = st, !.body = b] :
        st \in ResponsesOf(op) \ {HTTP_UNAUTHORIZED}, b \in BodiesOf(op)}
    \cup {[UnusedEnv EXCEPT !.st1 = HTTP_UNAUTHORIZED, !.tok2 = tk] :
        tk \in {x \in TokenResponses : x.kind # "ok"}}
    \cup {[UnusedEnv EXCEPT !.st1 = HTTP_UNAUTHORIZED, !.tok2 = tk, !.st2 = st, !.body = b] :
        tk \in {x \in TokenResponses : x.kind = "ok"}, st \in ResponsesOf(op), b \in BodiesOf(op)}

FinalStatus(e) == IF e.st1 = HTTP_UNAUTHORIZED THEN e.st2 ELSE e.st1

CanonicalEnvs(op) ==
    {e \in AuthenticatedEnvs(op) : FinalStatus(e) \notin BodyStatusesOf(op) => e.body = "valid"}

EnvTable ==
    [op \in Ops |->
        [need \in BOOLEAN |->
            IF ~need THEN CanonicalEnvs(op)
            ELSE {[UnusedEnv EXCEPT !.tok1 = tk] : tk \in {x \in TokenResponses : x.kind # "ok"}}
                 \cup {[e EXCEPT !.tok1 = tk] :
                        e \in CanonicalEnvs(op), tk \in {x \in TokenResponses : x.kind = "ok"}}]]

Envs(op, s, t) == EnvTable[op][ensure_authenticated(s, t)]

\* the IdentityUser values tried: at most one of the four fields missing
Users ==
    {u \in [user_name : BOOLEAN, given_name : BOOLEAN, family_name : BOOLEAN, company_id : BOOLEAN] :
        Cardinality({f \in DOMAIN u : ~u[f]}) <= 1}

NoArgs == [login_id |-> TRUE,
           user |-> [user_name |-> TRUE, given_name |-> TRUE, family_name |-> TRUE, company_id |-> TRUE]]

Idle == [op |-> "idle", outcome |-> "none", reqs |-> <<>>, args |-> NoArgs, pre |-> NoSession,
         message |-> "none"]

\* the threads that may share the instance; none is inside the session manager
Threads == {1, 2}

NoCallers == [t \in Threads |-> [pc |-> "out", resp |-> NoTokenResponse, wrote |-> None]]

(***************************************************************************)
(* The state machine: one action per public operation, the whole call.     *)
(***************************************************************************)
AllAuths(reqs) ==
    IF Len(reqs) = 0 THEN <<>>
    ELSE IF Len(reqs) = 1 THEN reqs[1].auths
    ELSE reqs[1].auths \o reqs[2].auths

AllCalls(reqs) ==
    IF Len(reqs) = 0 THEN <<>>
    ELSE IF Len(reqs) = 1 THEN reqs[1].calls
    ELSE reqs[1].calls \o reqs[2].calls

Complete(op, res, args) ==
    LET auths == AllAuths(res.reqs)
        oks == {i \in 1..Len(auths) : auths[i].kind = "ok"}
        latest == CHOOSE i \in oks : \A j \in oks : j <= i
    IN  /\ session' = res.session
        /\ last' = [op |-> op, outcome |-> res.outcome, reqs |-> res.reqs,
                    args |-> args, pre |-> session, message |-> res.message]
        /\ lastAuth' = IF oks = {} THEN lastAuth
                       ELSE Some([time |-> now, expires_in |-> auths[latest].expires_in])
        /\ UNCHANGED <<config, now, codecVars, callers>>

GetCurrentUserIdentity ==
    /\ last.op = "idle"
    /\ \E env \in Envs("get_current_user_identity", session, now) :
        LET r == make_identity_request(config, session, now, env)
            nested == r.exc = "none" /\ r.status = HTTP_OK /\ r.body = "company"
        IN  \E env2 \in (IF nested THEN Envs("get_user_identity_by_id", r.session, now)
                         ELSE {UnusedEnv}) :
                Complete("get_current_user_identity",
                         get_current_user_identity(config, session, now, env, env2), NoArgs)

GetUserIdentityById ==
    /\ last.op = "idle"
    /\ \E env \in Envs("get_user_identity_by_id", session, now) :
        Complete("get_user_identity_by_id",
                 get_user_identity_by_id(config, session, now, env), NoArgs)

FindUserByUsername ==
    /\ last.op = "idle"
    /\ \E env \in Envs("find_user_by_username", session, now) :
        Complete("find_user_by_username",
                 find_user_by_username(config, session, now, env), NoArgs)

CreateUserIdentity ==
    /\ last.op = "idle"
    /\ \E user \in Users :
       \E env \in (IF user.company_id \/ config.company_id
                   THEN Envs("create_user_identity", session, now) ELSE {UnusedEnv}) :
        Complete("create_user_identity",
                 create_user_identity(config, session, now, env, user),
                 [NoArgs EXCEPT !.user = user])

GetCurrentUserTravelProfile ==
    /\ last.op = "idle"
    /\ Complete("get_current_user_travel_profile",
                get_current_user_travel_profile(config, session, now), NoArgs)

GetTravelProfile ==
    /\ last.op = "idle"
    /\ \E env \in Envs("get_travel_profile", session, now) :
        Complete("get_travel_profile",
                 get_travel_profile(config, session, now, env), NoArgs)

UpdateTravelProfile ==
    /\ last.op = "idle"
    /\ \E login_id \in BOOLEAN :
       \E env \in Envs("update_travel_profile", session, now) :
        Complete("update_travel_profile",
                 update_travel_profile(config, session, now, env, login_id),
                 [NoArgs EXCEPT !.login_id = login_id])

\* the caller takes the result; the instance is ready for the next call
Return ==
    /\ last.op # "idle"
    /\ last' = Idle
    /\ UNCHANGED <<config, session, now, lastAuth, codecVars, callers>>

Tick ==
    /\ last.op = "idle"
    /\ now < MaxTime
    /\ now' = now + 1
    /\ UNCHANGED <<config, session, last, lastAuth, codecVars, callers>>

CodecIdle ==
    /\ cls = "TravelProfile"
    /\ profile = <<>>
    /\ request = None
    /\ decoded = None
    /\ doc = None

\* ConcurSDK.__init__: no token, no expiry, no geolocation
Init ==
    /\ config \in Configs
    /\ session = NoSession
    /\ now = 0
    /\ last = Idle
    /\ lastAuth = None
    /\ callers = NoCallers
    /\ CodecIdle

Next ==
    \/ GetCurrentUserIdentity
    \/ GetUserIdentityById
    \/ FindUserByUsername
    \/ CreateUserIdentity
    \/ GetCurrentUserTravelProfile
    \/ GetTravelProfile
    \/ UpdateTravelProfile
    \/ Return
    \/ Tick

Spec == Init /\ [][Next]_vars

(***************************************************************************)
(* Properties of the session manager and the facade.                       *)
(***************************************************************************)
ReqsOfLast == {last.reqs[i] : i \in 1..Len(last.reqs)}

AuthsOfLast == LET a == AllAuths(last.reqs) IN {a[i] : i \in 1..Len(a)}

\* a wrapper call that found an unexpired token and sent its request
SentOnHeldToken(r) == r.pre.access_token # None /\ ~r.ensured /\ Len(r.calls) >= 1

\* C1 (as stated): a request sent while a token is held that is answered 401
\* makes the wrapper authenticate once and send the request once more (two
\* transport calls, a 200 on the retry being the result); any other status
\* makes one transport call and no authenticate.
C1_AsStated ==
    \A r \in ReqsOfLast :
        SentOnHeldToken(r) =>
            IF r.calls[1] = HTTP_UNAUTHORIZED
            THEN /\ Len(r.auths) = 1
                 /\ Len(r.calls) = 2
                 /\ (r.calls[2] = HTTP_OK => r.exc = "none" /\ r.status = HTTP_OK)
            ELSE Len(r.calls) = 1 /\ Len(r.auths) = 0

\* C1 (amended): for a request sent while an unexpired token is held, a 401
\* makes the wrapper call authenticate exactly once; when that authenticate
\* succeeds the request is sent exactly once more (two transport calls, a 200
\* on the retry being the result), and when it fails the request is not sent
\* again and the failure is raised; any other first status, 5xx included,
\* makes exactly one transport call and no authenticate.
C1_RetryOnceAfter401 ==
    \A r \in ReqsOfLast :
        SentOnHeldToken(r) =>
            IF r.calls[1] = HTTP_UNAUTHORIZED
            THEN /\ Len(r.auths) = 1
                 /\ r.auths[1].exc = "none" =>
                        /\ Len(r.calls) = 2
                        /\ (r.calls[2] = HTTP_OK => r.exc = "none" /\ r.status = HTTP_OK)
                 /\ r.auths[1].exc # "none" =>
                        /\ Len(r.calls) = 1
                        /\ r.exc = r.auths[1].exc
            ELSE Len(r.calls) = 1 /\ Len(r.auths) = 0

C1_Witness ==
    \E r \in ReqsOfLast :
        SentOnHeldToken(r) /\ r.calls = <<HTTP_UNAUTHORIZED, HTTP_OK>> /\ r.status = HTTP_OK

\* C2: a 401 answered again by 401 after the re-authentication fails the call
\* with AuthenticationError, two transport calls having been made.
C2_Second401IsAuthenticationError ==
    \A r \in ReqsOfLast :
        r.calls = <<HTTP_UNAUTHORIZED, HTTP_UNAUTHORIZED>> =>
            r.exc = "AuthenticationError" \/ last.outcome = "AuthenticationError"

\* C3: when acquiring or refreshing the token fails during get_travel_profile,
\* get_user_identity_by_id, find_user_by_username, create_user_identity or
\* update_travel_profile, the caller sees AuthenticationError and the request
\* is not sent (again).
C3_AuthFailureIsAuthenticationError ==
    last.op \in {"get_travel_profile", "get_user_identity_by_id", "find_user_by_username",
                 "create_user_identity", "update_travel_profile"} =>
        \A r \in ReqsOfLast :
            \A i \in 1..Len(r.auths) :
                r.auths[i].kind # "ok" =>
                    /\ last.outcome = "AuthenticationError"
                    /\ Len(r.calls) = (IF r.ensured THEN i - 1 ELSE i)

\* C4, first half (kept by the amendment): a wrapper call authenticates on
\* entry exactly when no token is held or the time is at or past the stored
\* expiry, so calls on an unexpired token make no call to the token endpoint.
AuthenticatesExactlyWhenExpired ==
    \A r \in ReqsOfLast :
        r.ensured <=>
            \/ r.pre.access_token = None
            \/ (r.pre.token_expiry # None /\ r.at >= r.pre.token_expiry[1])

\* C4 (as stated): ... and the stored expiry is the time of the last successful
\* authenticate + expires_in - 60 seconds.
C4_AsStated ==
    /\ AuthenticatesExactlyWhenExpired
    /\ session.token_expiry # None =>
        /\ lastAuth # None
        /\ session.token_expiry[1] =
             lastAuth[1].time + (lastAuth[1].expires_in - 60) * TicksPerSecond

\* C4 (amended): ... and the stored expiry is the time of the last successful
\* authenticate, truncated to the whole second, + expires_in - 60 seconds.
C4_LazyExpiry ==
    /\ AuthenticatesExactlyWhenExpired
    /\ session.token_expiry # None =>
        /\ lastAuth # None
        /\ session.token_expiry[1] =
             (lastAuth[1].time \div TicksPerSecond) * TicksPerSecond
             + (lastAuth[1].expires_in - 60) * TicksPerSecond

\* a token obtained off the whole second has run out, and the call on it
\* authenticated again
C4_Witness ==
    \E r \in ReqsOfLast :
        /\ r.pre.access_token # None
        /\ r.pre.token_expiry # None
        /\ r.ensured
        /\ r.at = r.pre.token_expiry[1]
        /\ Len(r.calls) >= 1

\* C5: an authenticate that does not complete raises AuthenticationError and
\* leaves the stored token, geolocation, identity base URL and expiry as they
\* were.
C5_FailedAuthenticateStoresNothing ==
    \A a \in AuthsOfLast :
        a.kind # "ok" => a.exc = "AuthenticationError" /\ a.after = a.before

\* C6: every authenticate makes exactly one call to the token endpoint, with
\* the grant refresh_token if a refresh token was supplied, else password if
\* both username and password were, else client_credentials.
C6_GrantPriority ==
    \A a \in AuthsOfLast :
        /\ a.posts = 1
        /\ a.grant = IF config.refresh_token THEN "refresh_token"
                     ELSE IF config.username /\ config.password THEN "password"
                     ELSE "client_credentials"

C6_Witness ==
    /\ ~config.refresh_token /\ config.username /\ ~config.password
    /\ \E a \in AuthsOfLast : a.grant = "client_credentials"

\* C7 (as stated): an operation that fails with ValidationError has made no
\* HTTP call, to the token endpoint or to the API.
C7_AsStated ==
    last.outcome = "ValidationError" =>
        AllCalls(last.reqs) = <<>> /\ AllAuths(last.reqs) = <<>>

\* C7 (amended): an operation other than get_current_user_identity that fails
\* with ValidationError has made no HTTP call; get_current_user_identity fails
\* with ValidationError only after /me answered 200 with a resource type it
\* does not know.
C7_ValidationBeforeNetwork ==
    last.outcome = "ValidationError" =>
        IF last.op = "get_current_user_identity"
        THEN /\ Len(last.reqs) = 1
             /\ last.reqs[1].status = HTTP_OK
             /\ last.reqs[1].body = "unknown_type"
        ELSE AllCalls(last.reqs) = <<>> /\ AllAuths(last.reqs) = <<>>

C7_Witness ==
    /\ last.op = "update_travel_profile"
    /\ ~last.args.login_id
    /\ last.outcome = "ValidationError"
    /\ session.access_token # None

\* C8: create_user_identity fails with ValidationError, no HTTP call made, when
\* the user lacks a username, a given name, a family name or a company id that
\* the user or the SDK's configuration supplies.
C8_CreateValidatesRequiredFields ==
    (/\ last.op = "create_user_identity"
     /\ \/ ~last.args.user.user_name
        \/ ~last.args.user.given_name
        \/ ~last.args.user.family_name
        \/ (~last.args.user.company_id /\ ~config.company_id)) =>
        /\ last.outcome = "ValidationError"
        /\ AllCalls(last.reqs) = <<>>
        /\ AllAuths(last.reqs) = <<>>

\* C20: get_travel_profile fails with ProfileNotFoundError whenever the
\* backend answers 404 or a body holding the "Invalid User" marker, whatever
\* the status.
C20_NotFoundOrInvalidUser ==
    last.op = "get_travel_profile" =>
        \A r \in ReqsOfLast :
            (r.exc = "none" /\ (r.status = HTTP_NOT_FOUND \/ r.body = "invalid_user")) =>
                last.outcome = "ProfileNotFoundError"

\* C21: a lookup by id and a lookup of the current caller both fail with
\* ProfileNotFoundError when the identity endpoint answers 404.
C21_NotFoundOnIdentity404 ==
    last.op \in {"get_user_identity_by_id", "get_current_user_identity"} =>
        \A r \in ReqsOfLast :
            (r.exc = "none" /\ r.status = HTTP_NOT_FOUND) =>
                last.outcome = "ProfileNotFoundError"

Is2xx(status) == status \in {HTTP_OK, HTTP_CREATED}

\* C23: update_travel_profile turns every answer outside 2xx, not-found apart,
\* into a ConcurProfileError whose message carries the server's message when the
\* body holds one, and turns no 2xx answer into an error.
C23_ServerMessagePreserved ==
    (last.op = "update_travel_profile" /\ last.args.login_id) =>
        \A r \in ReqsOfLast :
            (r.exc = "none" /\ r.status # HTTP_NOT_FOUND /\ r.body # "invalid_user") =>
                IF Is2xx(r.status) THEN last.outcome = "ok"
                ELSE /\ last.outcome = "ConcurProfileError"
                     /\ r.body = "error_doc" => last.message = "server_message"

FacadeOps ==
    {"get_current_user_identity", "get_user_identity_by_id", "find_user_by_username",
     "get_travel_profile", "create_user_identity", "update_travel_profile"}

\* one request, sent again at most once and only after a 401
OneCallAndRetry(calls) ==
    /\ Len(calls) <= 2
    /\ Len(calls) = 2 => calls[1] = HTTP_UNAUTHORIZED

\* C27 (as stated): every facade operation sends one API request, sends it
\* once more at most and only when the first answer is 401, and sends no
\* further API request before it returns or raises.
C27_AsStated ==
    last.op \in FacadeOps => OneCallAndRetry(AllCalls(last.reqs))

\* /me answered 200 with a Company resource whose token names a subject
CompanyAnswer(r) == r.exc = "none" /\ r.status = HTTP_OK /\ r.body = "company"

\* C27 (amended): every facade operation goes through a transport wrapper at
\* most once, the wrapper sending one API request and sending it once more at
\* most and only when the first answer is 401; get_current_user_identity alone
\* goes through the wrapper a second time, for the lookup by id it makes when
\* /me answers with a Company resource, and never a third time.
C27_OneCallPerWrapper ==
    last.op \in FacadeOps =>
        /\ \A r \in ReqsOfLast : OneCallAndRetry(r.calls)
        /\ Len(last.reqs) <= 2
        /\ Len(last.reqs) = 2 =>
            /\ last.op = "get_current_user_identity"
            /\ CompanyAnswer(last.reqs[1])

\* the current-user lookup retried /me after a 401 and then looked the user up
\* by id: three API requests in one operation
C27_Witness ==
    /\ last.op = "get_current_user_identity"
    /\ Len(last.reqs) = 2
    /\ last.reqs[1].calls = <<HTTP_UNAUTHORIZED, HTTP_OK>>
    /\ Len(last.reqs[2].calls) >= 1

\* the authenticate calls of the operation an action completes
AuthsOfNext == LET a == AllAuths(last'.reqs) IN {a[i] : i \in 1..Len(a)}

\* C28: the instance comes to hold a token only by an authenticate that
\* succeeds, and once it holds one no operation, 401 or failed authenticate
\* takes it away; an expired token is acted on only at the start of a call,
\* by the authenticate made there.
C28_SessionStateMachine ==
    [][/\ (session.access_token = None /\ session'.access_token # None) =>
            \E a \in AuthsOfNext : a.kind = "ok"
       /\ session.access_token # None => session'.access_token # None
       /\ session' # session => \E a \in AuthsOfNext : a.after # a.before]_vars

\* C29: on an instance created with a username and a password,
\* get_current_user_travel_profile returns the travel profile of the user
\* the token was issued to when the backend answers the request.
C29_CurrentUserTravelProfile ==
    (/\ last.op = "get_current_user_travel_profile"
     /\ config.username /\ config.password /\ ~config.refresh_token) =>
        last.outcome \in {"ok", "ProfileNotFoundError", "ConcurProfileError"}

(***************************************************************************)
(* The encoder of update documents.  A profile maps each field the encoder *)
(* reads to a number: 0 for an empty string, an empty list, False or None, *)
(* the number of entries of a non-empty list, 1 for a set string, True or  *)
(* an object; for the four preference objects 1 is an object whose fields  *)
(* all have their defaults and 2 an object with a preference set.  A       *)
(* document is the sequence of the tags of the root's direct children.     *)
(***************************************************************************)
MaxPopulated == 2
MaxGroups == 2
MaxContacts == 2

TravelProfileFields ==
    <<"rule_class", "travel_config_id", "national_ids", "drivers_licenses",
      "has_no_passport", "passports", "visas", "tsa_info", "rate_preferences",
      "discount_codes", "air_preferences", "hotel_preferences", "car_preferences",
      "rail_preferences", "custom_fields", "unused_tickets",
      "southwest_unused_tickets", "loyalty_programs">>

\* the fields of UserProfile that its encoder reads
UserProfileFields ==
    <<"first_name", "last_name", "middle_name", "job_title", "company_name",
      "employee_id", "medical_alerts", "addresses", "phones", "emails",
      "emergency_contacts", "national_ids", "drivers_licenses", "has_no_passport",
      "passports", "visas", "tsa_info", "rate_preferences", "discount_codes",
      "air_preferences", "hotel_preferences", "car_preferences", "rail_preferences",
      "custom_fields", "unused_tickets", "southwest_unused_tickets",
      "loyalty_programs">>

Range(q) == {q[i] : i \in 1..Len(q)}

FieldsOf(c) == IF c = "TravelProfile" THEN Range(TravelProfileFields)
               ELSE Range(UserProfileFields)

PreferenceFields ==
    {"air_preferences", "hotel_preferences", "car_preferences", "rail_preferences"}

\* f in fields_to_update
Named(fields, f) == \E i \in 1..Len(fields) : fields[i] = f

\* not fields_to_update or f in fields_to_update
Selected(fields, f) == fields = <<>> \/ Named(fields, f)

RECURSIVE Repeat(_, _)
Repeat(tag, n) == IF n = 0 THEN <<>> ELSE <<tag>> \o Repeat(tag, n - 1)

\* a container element with its entries below it
Container(tag, n) == IF n > 0 THEN <<tag>> ELSE <<>>

\* one EmergencyContact element under the parent for every contact
EmergencyContacts_to_xml_element(n) == Repeat("EmergencyContact", n)

AirPreferences_to_xml_element(v) == <<"Air">>

RailPreferences_to_xml_element(v) == <<"Rail">>

\* no element when has_preferences is false
CarPreferences_to_xml_element(v) == IF v = 2 THEN <<"Car">> ELSE <<>>

HotelPreferences_to_xml_element(v) == IF v = 2 THEN <<"Hotel">> ELSE <<>>

RatePreference_to_xml_element(v) == <<"RatePreferences">>

TSAInfo_to_xml_element(v) == <<"TSAInfo">>

\* if <Selected>: if self.<field>: <elems>
Section(fields, f, v, elems) == IF Selected(fields, f) /\ v > 0 THEN elems ELSE <<>>

NonEmpty(p, names) == SelectSeq(names, LAMBDA f : p[f] > 0)

\* a list of the non-empty fields that leaves the discount codes out
TravelProfile_get_non_empty_fields_no_discount_codes(p) ==
    NonEmpty(p, <<"rule_class", "travel_config_id", "national_ids", "drivers_licenses",
                  "passports", "visas", "tsa_info", "rate_preferences",
                  "air_preferences", "hotel_preferences", "car_preferences",
                  "rail_preferences", "custom_fields", "unused_tickets",
                  "southwest_unused_tickets", "loyalty_programs">>)

TravelProfile_get_non_empty_fields(p) ==
    NonEmpty(p, <<"rule_class", "travel_config_id", "national_ids", "drivers_licenses",
                  "passports", "visas", "tsa_info", "rate_preferences", "discount_codes",
                  "air_preferences", "hotel_preferences", "car_preferences",
                  "rail_preferences", "custom_fields", "unused_tickets",
                  "southwest_unused_tickets", "loyalty_programs">>)

TravelGeneral(fields) ==
    IF Named(fields, "rule_class") \/ Named(fields, "travel_config_id")
    THEN <<"General">> ELSE <<>>

\* the preference sections in alphabetical order instead of the schema's
TravelPreferenceSections_alphabetical(p, fields) ==
    Section(fields, "air_preferences", p["air_preferences"],
            AirPreferences_to_xml_element(p["air_preferences"]))
    \o Section(fields, "car_preferences", p["car_preferences"],
               CarPreferences_to_xml_element(p["car_preferences"]))
    \o Section(fields, "hotel_preferences", p["hotel_preferences"],
               HotelPreferences_to_xml_element(p["hotel_preferences"]))
    \o Section(fields, "rail_preferences", p["rail_preferences"],
               RailPreferences_to_xml_element(p["rail_preferences"]))

TravelPreferenceSections(p, fields) ==
    Section(fields, "air_preferences", p["air_preferences"],
            AirPreferences_to_xml_element(p["air_preferences"]))
    \o Section(fields, "rail_preferences", p["rail_preferences"],
               RailPreferences_to_xml_element(p["rail_preferences"]))
    \o Section(fields, "car_preferences", p["car_preferences"],
               CarPreferences_to_xml_element(p["car_preferences"]))
    \o Section(fields, "hotel_preferences", p["hotel_preferences"],
               HotelPreferences_to_xml_element(p["hotel_preferences"]))

TravelProfile_add_sections_to_xml(p, fields) ==
    TravelGeneral(fields)
    \o Section(fields, "national_ids", p["national_ids"],
               Container("NationalIDs", p["national_ids"]))
    \o Section(fields, "drivers_licenses", p["drivers_licenses"],
               Container("DriversLicenses", p["drivers_licenses"]))
    \o Section(fields, "has_no_passport", p["has_no_passport"], <<"HasNoPassport">>)
    \o Section(fields, "passports", p["passports"], Container("Passports", p["passports"]))
    \o Section(fields, "visas", p["visas"], Container("Visas", p["visas"]))
    \o Section(fields, "rate_preferences", p["rate_preferences"],
               RatePreference_to_xml_element(p["rate_preferences"]))
    \o Section(fields, "discount_codes", p["discount_codes"],
               Container("DiscountCodes", p["discount_codes"]))
    \o TravelPreferenceSections(p, fields)
    \o Section(fields, "custom_fields", p["custom_fields"],
               Container("CustomFields", p["custom_fields"]))
    \o Section(fields, "tsa_info", p["tsa_info"], TSAInfo_to_xml_element(p["tsa_info"]))
    \o Section(fields, "unused_tickets", p["unused_tickets"],
               Container("UnusedTickets", p["unused_tickets"]))
    \o Section(fields, "southwest_unused_tickets", p["southwest_unused_tickets"],
               Container("SouthwestUnusedTickets", p["southwest_unused_tickets"]))
    \o Section(fields, "loyalty_programs", p["loyalty_programs"],
               Container("AdvantageMemberships", p["loyalty_programs"]))

\* req is None or Some(list of field names)
TravelProfile_to_update_xml(p, req) ==
    LET fields_to_update == IF req = None THEN TravelProfile_get_non_empty_fields(p)
                            ELSE req[1]
    IN  TravelProfile_add_sections_to_xml(p, fields_to_update)

UserProfile_get_non_empty_fields(p) ==
    NonEmpty(p, <<"first_name", "last_name", "middle_name", "job_title", "company_name",
                  "employee_id", "medical_alerts", "phones", "addresses", "emails",
                  "emergency_contacts", "national_ids", "drivers_licenses", "passports",
                  "visas", "tsa_info", "rate_preferences", "discount_codes",
                  "air_preferences", "hotel_preferences", "car_preferences",
                  "rail_preferences", "custom_fields", "unused_tickets",
                  "southwest_unused_tickets", "loyalty_programs">>)

UserGeneral(fields) ==
    IF \E f \in {"first_name", "last_name", "middle_name", "job_title", "company_name",
                 "employee_id", "medical_alerts"} : Named(fields, f)
    THEN <<"General">> ELSE <<>>

UserProfile_add_sections_to_xml(p, fields) ==
    Section(fields, "emergency_contacts", p["emergency_contacts"],
            EmergencyContacts_to_xml_element(p["emergency_contacts"]))
    \o Section(fields, "phones", p["phones"], Container("Telephones", p["phones"]))
    \o Section(fields, "addresses", p["addresses"], Container("Addresses", p["addresses"]))
    \o Section(fields, "national_ids", p["national_ids"],
               Container("NationalIDs", p["national_ids"]))
    \o Section(fields, "drivers_licenses", p["drivers_licenses"],
               Container("DriversLicenses", p["drivers_licenses"]))
    \o Section(fields, "has_no_passport", p["has_no_passport"], <<"HasNoPassport">>)
    \o Section(fields, "passports", p["passports"], Container("Passports", p["passports"]))
    \o Section(fields, "visas", p["visas"], Container("Visas", p["visas"]))
    \o Section(fields, "emails", p["emails"], Container("EmailAddresses", p["emails"]))
    \o Section(fields, "rate_preferences", p["rate_preferences"],
               RatePreference_to_xml_element(p["rate_preferences"]))
    \o Section(fields, "discount_codes", p["discount_codes"],
               Container("DiscountCodes", p["discount_codes"]))
    \o Section(fields, "air_preferences", p["air_preferences"],
               AirPreferences_to_xml_element(p["air_preferences"]))
    \o Section(fields, "rail_preferences", p["rail_preferences"],
               RailPreferences_to_xml_element(p["rail_preferences"]))
    \o Section(fields, "car_preferences", p["car_preferences"],
               CarPreferences_to_xml_element(p["car_preferences"]))
    \o Section(fields, "hotel_preferences", p["hotel_preferences"],
               HotelPreferences_to_xml_element(p["hotel_preferences"]))
    \o Section(fields, "custom_fields", p["custom_fields"],
               Container("CustomFields", p["custom_fields"]))
    \o Section(fields, "tsa_info", p["tsa_info"], TSAInfo_to_xml_element(p["tsa_info"]))
    \o Section(fields, "unused_tickets", p["unused_tickets"],
               Container("UnusedTickets", p["unused_tickets"]))
    \o Section(fields, "southwest_unused_tickets", p["southwest_unused_tickets"],
               Container("SouthwestUnusedTickets", p["southwest_unused_tickets"]))
    \o Section(fields, "loyalty_programs", p["loyalty_programs"],
               Container("AdvantageMemberships", p["loyalty_programs"]))

UserProfile_to_update_xml(p, req) ==
    LET fields_to_update == IF req = None THEN UserProfile_get_non_empty_fields(p)
                            ELSE req[1]
    IN  UserGeneral(fields_to_update) \o UserProfile_add_sections_to_xml(p, fields_to_update)

(***************************************************************************)
(* The encoder's inputs: profiles with at most MaxPopulated fields set and *)
(* explicit lists of at most MaxGroups names, in any order and with        *)
(* repetitions, drawn from the names of the populated fields and from      *)
(* three names of fields that may be empty.                                *)
(***************************************************************************)
RECURSIVE SubsetsUpTo(_, _)
SubsetsUpTo(S, k) ==
    IF k = 0 THEN {{}}
    ELSE LET smaller == SubsetsUpTo(S, k - 1)
         IN  smaller \cup {T \cup {x} : T \in smaller, x \in S}

MaxValue(f) == IF f = "emergency_contacts" THEN MaxContacts
               ELSE IF f \in PreferenceFields THEN 2
               ELSE 1

ValuesOf(f) == 1..MaxValue(f)

\* the assignments of a value to each field of T
RECURSIVE Populations(_)
Populations(T) ==
    IF T = {} THEN {<<>>}
    ELSE LET f == CHOOSE x \in T : TRUE
         IN  {(f :> v) @@ rest : v \in ValuesOf(f), rest \in Populations(T \ {f})}

Profiles(c) ==
    UNION {{[f \in FieldsOf(c) |-> IF f \in T THEN v[f] ELSE 0] : v \in Populations(T)} :
              T \in SubsetsUpTo(FieldsOf(c), MaxPopulated)}

Populated(p) == {f \in DOMAIN p : p[f] > 0}

Probes(c) == IF c = "TravelProfile"
             THEN {"rule_class", "has_no_passport", "hotel_preferences"}
             ELSE {"first_name", "has_no_passport", "hotel_preferences"}

RequestNames(c, p) == Populated(p) \cup Probes(c)

Requests(c, p) ==
    {None} \cup {Some(q) : q \in UNION {[1..n -> RequestNames(c, p)] : n \in 0..MaxGroups}}

\* TravelProfile(...).to_update_xml(fields_to_update)
TravelToUpdateXml ==
    /\ cls = "TravelProfile"
    /\ doc = None
    /\ \E req \in Requests(cls, profile) :
        /\ request' = req
        /\ doc' = Some(TravelProfile_to_update_xml(profile, req))
    /\ UNCHANGED <<cls, profile, decoded, sessionVars>>

\* UserProfile(...).to_update_xml(fields_to_update)
UserToUpdateXml ==
    /\ cls = "UserProfile"
    /\ doc = None
    /\ \E req \in Requests(cls, profile) :
        /\ request' = req
        /\ doc' = Some(UserProfile_to_update_xml(profile, req))
    /\ UNCHANGED <<cls, profile, decoded, sessionVars>>

InitCodec ==
    /\ config = [refresh_token |-> FALSE, username |-> TRUE, password |-> TRUE,
                 company_id |-> TRUE]
    /\ session = NoSession
    /\ now = 0
    /\ last = Idle
    /\ lastAuth = None
    /\ callers = NoCallers
    /\ cls \in {"TravelProfile", "UserProfile"}
    /\ profile \in Profiles(cls)
    /\ request = None
    /\ doc = None
    /\ decoded = None

NextCodec == TravelToUpdateXml \/ UserToUpdateXml

SpecCodec == InitCodec /\ [][NextCodec]_vars

(***************************************************************************)
(* Properties of the encoder.                                              *)
(***************************************************************************)
FixedOrder ==
    <<"General", "EmergencyContact", "Telephones", "Addresses", "NationalIDs",
      "DriversLicenses", "HasNoPassport", "Passports", "Visas", "EmailAddresses",
      "RatePreferences", "DiscountCodes", "Air", "Rail", "Car", "Hotel", "CustomFields",
      "TSAInfo", "UnusedTickets", "SouthwestUnusedTickets", "AdvantageMemberships">>

Rank(tag) == CHOOSE i \in 1..Len(FixedOrder) : FixedOrder[i] = tag

Known(d) == \A i \in 1..Len(d) : d[i] \in Range(FixedOrder)

\* C9 (as stated): the direct children of the root of an encoded document are
\* a subsequence of the fixed order, whatever fields are populated and
\* whatever groups are requested in whatever order.
C9_AsStated ==
    doc # None =>
        /\ Known(doc[1])
        /\ \A i, j \in 1..Len(doc[1]) : i < j => Rank(doc[1][i]) < Rank(doc[1][j])

\* C9 (amended): the direct children of the root of an encoded document
\* appear in the fixed order, each group at most once except EmergencyContact,
\* which appears once for every emergency contact of the profile, whatever
\* fields are populated and whatever groups are requested in whatever order.
C9_FixedOrder ==
    doc # None =>
        /\ Known(doc[1])
        /\ \A i, j \in 1..Len(doc[1]) :
              i < j =>
                \/ Rank(doc[1][i]) < Rank(doc[1][j])
                \/ doc[1][i] = "EmergencyContact" /\ doc[1][j] = "EmergencyContact"
        /\ Cardinality({i \in 1..Len(doc[1]) : doc[1][i] = "EmergencyContact"})
              \in {0} \cup {profile[f] : f \in {"emergency_contacts"} \cap DOMAIN profile}

C9_Witness ==
    /\ cls = "TravelProfile"
    /\ request = Some(<<"hotel_preferences", "air_preferences">>)
    /\ doc = Some(<<"Air", "Hotel">>)

\* C10: a document encoded for an explicit list of groups has elements only
\* for the groups the list names, an empty list included.
TagOf ==
    [rule_class |-> "General", travel_config_id |-> "General",
     national_ids |-> "NationalIDs", drivers_licenses |-> "DriversLicenses",
     has_no_passport |-> "HasNoPassport", passports |-> "Passports", visas |-> "Visas",
     tsa_info |-> "TSAInfo", rate_preferences |-> "RatePreferences",
     discount_codes |-> "DiscountCodes", air_preferences |-> "Air",
     hotel_preferences |-> "Hotel", car_preferences |-> "Car", rail_preferences |-> "Rail",
     custom_fields |-> "CustomFields", unused_tickets |-> "UnusedTickets",
     southwest_unused_tickets |-> "SouthwestUnusedTickets",
     loyalty_programs |-> "AdvantageMemberships"]

C10_OnlyNamedGroups ==
    (cls = "TravelProfile" /\ doc # None /\ request # None) =>
        \A i \in 1..Len(doc[1]) :
            \E k \in 1..Len(request[1]) : TagOf[request[1][k]] = doc[1][i]

\* a Hotel or Car object counts as set when one of its preferences is
GroupIsSet(p, f) ==
    IF f \in {"hotel_preferences", "car_preferences"} THEN p[f] = 2 ELSE p[f] > 0

\* C11: with no list of groups given, every group whose field is set is in
\* the document: General, NationalIDs, DriversLicenses, HasNoPassport,
\* Passports, Visas, RatePreferences, Air, Rail, Car, Hotel, CustomFields,
\* TSAInfo, UnusedTickets, SouthwestUnusedTickets and AdvantageMemberships,
\* whatever other fields are set.
C11_AllNonEmptyGroups ==
    (cls = "TravelProfile" /\ doc # None /\ request = None) =>
        \A f \in Range(TravelProfileFields) \ {"discount_codes"} :
            GroupIsSet(profile, f) => TagOf[f] \in Range(doc[1])

Elem(tag, children) == [tag |-> tag, text |-> "", children |-> children]

Leaf(tag, text) == [tag |-> tag, text |-> text, children |-> <<>>]

\* if self.<string>: etree.SubElement(parent, tag).text = self.<string>
TextChild(tag, str) == IF str # "" THEN <<Leaf(tag, str)>> ELSE <<>>

\* if self.<enum>: etree.SubElement(parent, tag).text = self.<enum>.value
EnumChild(tag, enum) == IF enum # None THEN <<Leaf(tag, enum[1])>> ELSE <<>>

\* if self.<flag>: etree.SubElement(parent, tag).text = "true"
TrueChild(tag, flag) == IF flag THEN <<Leaf(tag, "true")>> ELSE <<>>

\* etree.SubElement(parent, tag).text = "true" if self.<flag> else "false"
BoolChild(tag, flag) == <<Leaf(tag, IF flag THEN "true" ELSE "false")>>

Tags(elems) == {elems[i].tag : i \in 1..Len(elems)}

SeatPreference == {"Window", "Aisle", "Middle", "DontCare"}

SeatSection == {"Bulkhead", "Forward", "Rear", "ExitRow", "DontCare"}

MealType ==
    {"BLML", "CHML", "DBML", "FPML", "GFML", "HNML", "BBML", "KSML", "LCML", "LSML",
     "MOML", "NSML", "NLML", "PFML", "SFML", "VLML", "VGML", "KVML", "RVML", "AVML"}

HotelRoomType == {"King", "Queen", "Double", "Twin", "Single", "Disability", "DontCare"}

SmokingPreference == {"NonSmoking", "Smoking", "DontCare"}

CarType ==
    {"Economy", "Compact", "Intermediate", "Standard", "FullSize", "Premium", "Luxury",
     "SUV", "MiniVan", "Convertible", "DontCare"}

TransmissionType == {"Automatic", "Manual", "DontCare"}

VisaType == {"Unknown", "SE", "DE", "ME", "ES", "ET", "SH"}

LoyaltyProgramType == {"Air", "Hotel", "Car", "Rail"}

\* a Seat element only when a seat preference or a seat section is set
AirSeat_for_seat_fields_only(a) ==
    IF a.seat_preference # None \/ a.seat_section # None
    THEN <<Elem("Seat", EnumChild("InterRowPositionCode", a.seat_preference)
                        \o EnumChild("SectionPositionCode", a.seat_section))>>
    ELSE <<>>

AirSeat(a) ==
    LET has_seat_prefs == a.seat_preference # None \/ a.seat_section # None
        has_other_air_prefs ==
            a.home_airport # "" \/ a.air_other # "" \/ a.meal_preference # None
    IN  IF has_seat_prefs \/ has_other_air_prefs
        THEN <<Elem("Seat", EnumChild("InterRowPositionCode", a.seat_preference)
                            \o EnumChild("SectionPositionCode", a.seat_section))>>
        ELSE <<>>

\* the elements AirPreferences.to_xml_element adds to its parent
AirPreferences_to_xml(a) ==
    <<Elem("Air", AirSeat(a)
                  \o EnumChild("MealCode", a.meal_preference)
                  \o TextChild("HomeAirport", a.home_airport)
                  \o TextChild("AirOther", a.air_other))>>

\* a has_preferences that is always true
Hotel_has_preferences_always(h) == TRUE

Hotel_has_preferences(h) ==
    \/ h.smoking_preference # None
    \/ h.room_type # None
    \/ h.hotel_other # ""
    \/ h.prefer_foam_pillows
    \/ h.prefer_crib
    \/ h.prefer_rollaway_bed
    \/ h.prefer_gym
    \/ h.prefer_pool
    \/ h.prefer_restaurant
    \/ h.prefer_room_service
    \/ h.prefer_early_checkin

\* the children with the two elements the code has commented out
HotelChildren_with_denied(h) ==
    EnumChild("SmokingCode", h.smoking_preference)
    \o <<Elem("HotelMemberships", <<>>)>>
    \o EnumChild("RoomType", h.room_type)
    \o TextChild("HotelOther", h.hotel_other)
    \o TrueChild("PreferFoamPillows", h.prefer_foam_pillows)
    \o TrueChild("PreferCrib", h.prefer_crib)
    \o TrueChild("PreferRollawayBed", h.prefer_rollaway_bed)
    \o TrueChild("PreferGym", h.prefer_gym)
    \o TrueChild("PreferPool", h.prefer_pool)
    \o TrueChild("PreferRestaraunt", h.prefer_restaurant)
    \o TrueChild("PreferRoomService", h.prefer_room_service)
    \o TrueChild("PreferEarlyCheckIn", h.prefer_early_checkin)

HotelChildren(h) ==
    <<Elem("HotelMemberships", <<>>)>>
    \o EnumChild("RoomType", h.room_type)
    \o TextChild("HotelOther", h.hotel_other)
    \o TrueChild("PreferFoamPillows", h.prefer_foam_pillows)
    \o TrueChild("PreferCrib", h.prefer_crib)
    \o TrueChild("PreferRollawayBed", h.prefer_rollaway_bed)
    \o TrueChild("PreferGym", h.prefer_gym)
    \o TrueChild("PreferPool", h.prefer_pool)
    \o TrueChild("PreferRoomService", h.prefer_room_service)
    \o TrueChild("PreferEarlyCheckIn", h.prefer_early_checkin)

HotelPreferences_to_xml(h) ==
    IF ~Hotel_has_preferences(h) THEN <<>> ELSE <<Elem("Hotel", HotelChildren(h))>>

Car_has_preferences(c) ==
    \/ c.car_type # None
    \/ c.transmission # None
    \/ c.smoking_preference # None
    \/ c.gps
    \/ c.ski_rack

CarPreferences_to_xml(c) ==
    IF ~Car_has_preferences(c) THEN <<>>
    ELSE <<Elem("Car", EnumChild("CarType", c.car_type)
                       \o EnumChild("CarTransmission", c.transmission)
                       \o EnumChild("CarSmokingCode", c.smoking_preference)
                       \o TrueChild("CarGPS", c.gps)
                       \o TrueChild("CarSkiRack", c.ski_rack))>>

RailFields ==
    <<"seat", "coach", "noise_comfort", "bed", "bed_category", "berth", "deck",
      "space_type", "fare_space_comfort", "special_meals", "contingencies">>

RailTag ==
    [seat |-> "Seat", coach |-> "Coach", noise_comfort |-> "NoiseComfort", bed |-> "Bed",
     bed_category |-> "BedCategory", berth |-> "Berth", deck |-> "Deck",
     space_type |-> "SpaceType", fare_space_comfort |-> "FareSpaceComfort",
     special_meals |-> "SpecialMeals", contingencies |-> "Contingencies"]

RECURSIVE RailChildren(_, _)
RailChildren(r, i) ==
    IF i > Len(RailFields) THEN <<>>
    ELSE TextChild(RailTag[RailFields[i]], r[RailFields[i]]) \o RailChildren(r, i + 1)

RailPreferences_to_xml(r) == <<Elem("Rail", RailChildren(r, 1))>>

\* datetime.date values and their "%Y-%m-%d" text
Dates == {[year |-> 1990, month |-> 1, day |-> 2], [year |-> 2031, month |-> 12, day |-> 30]}

strftime(d) == IF d.year = 1990 THEN "1990-01-02" ELSE "2031-12-30"

\* if self.<date>: etree.SubElement(parent, tag).text = self.<date>.strftime("%Y-%m-%d")
DateChild(tag, date) == IF date # None THEN <<Leaf(tag, strftime(date[1]))>> ELSE <<>>

\* TSAInfo.to_xml_element: the text of Gender (upper() of the samples "m", "f")
GenderText(g) ==
    IF g \in {"M", "m"} THEN "Male"
    ELSE IF g \in {"F", "f"} THEN "Female"
    ELSE IF g \in {"Male", "Female", "Undisclosed", "Unknown", "Unspecified"} THEN g
    ELSE "Unknown"

TSAInfo_to_xml(t) ==
    <<Elem("TSAInfo",
           (IF t.gender # "" THEN <<Leaf("Gender", GenderText(t.gender))>> ELSE <<>>)
           \o DateChild("DateOfBirth", t.date_of_birth)
           \o BoolChild("NoMiddleName", t.no_middle_name)
           \o TextChild("PreCheckNumber", t.known_traveler_number)
           \o TextChild("RedressNumber", t.redress_number))>>

Visa_to_xml(v) ==
    Elem("Visa", <<Leaf("VisaNationality", v.visa_nationality),
                   Leaf("VisaNumber", v.visa_number),
                   Leaf("VisaType", v.visa_type)>>
                 \o DateChild("VisaDateIssued", v.visa_date_issued)
                 \o DateChild("VisaExpiration", v.visa_expiration)
                 \o <<Leaf("VisaCountryIssued", v.visa_country_issued)>>)

\* vendor_type_map of LoyaltyProgram.to_xml_element
vendor_type_map == [Air |-> "Air", Hotel |-> "Hotel", Car |-> "Car", Rail |-> "Rail"]

\* LoyaltyProgram.to_xml_element(parent, membership_type)
LoyaltyProgram_to_xml(l, membership_type) ==
    IF membership_type = "Membership"
    THEN Elem(membership_type,
              <<Leaf("VendorCode", l.vendor_code),
                Leaf("VendorType", vendor_type_map[l.program_type]),
                Leaf("ProgramNumber", l.account_number),
                Leaf("ProgramCode", l.vendor_code)>>
              \o DateChild("ExpirationDate", l.expiration))
    ELSE Elem(membership_type,
              <<Leaf("VendorCode", l.vendor_code), Leaf("AccountNo", l.account_number)>>
              \o TextChild("Status", l.status)
              \o TextChild("StatusBenefits", l.status_benefits)
              \o TextChild("PointTotal", l.point_total)
              \o TextChild("SegmentTotal", l.segment_total)
              \o TextChild("NextStatus", l.next_status)
              \o TextChild("PointsUntilNextStatus", l.points_until_next_status)
              \o TextChild("SegmentsUntilNextStatus", l.segments_until_next_status)
              \o DateChild("Expiration", l.expiration))

\* VendorType: the code of a program type on the loyalty endpoint
vendor_type_code == [Air |-> "A", Hotel |-> "H", Car |-> "C", Rail |-> "R"]

\* update_loyalty_program: the children of the LoyaltyMembershipUpdate it posts
update_loyalty_program_xml(l) ==
    <<Elem("Membership",
           <<Leaf("VendorCode", l.vendor_code),
             Leaf("VendorType", vendor_type_code[l.program_type]),
             Leaf("AccountNo", l.account_number)>>
           \o TextChild("Status", l.status))>>

RECURSIVE MapSeq(_, _)
MapSeq(Op(_), q) == IF q = <<>> THEN <<>> ELSE <<Op(Head(q))>> \o MapSeq(Op, Tail(q))

\* the truthiness of a field of the detailed profile
Truthy(p, f) ==
    CASE f \in {"rule_class", "travel_config_id"} -> p[f] # ""
      [] f = "has_no_passport" -> p[f]
      [] OTHER -> p[f] # <<>>

DetailFields ==
    <<"rule_class", "travel_config_id", "has_no_passport", "visas", "tsa_info",
      "air_preferences", "hotel_preferences", "car_preferences", "rail_preferences",
      "loyalty_programs">>

\* TravelProfile._get_non_empty_fields, for the fields of the detailed profile
get_non_empty_fields(p) ==
    SelectSeq(<<"rule_class", "travel_config_id", "visas", "tsa_info", "air_preferences",
                "hotel_preferences", "car_preferences", "rail_preferences",
                "loyalty_programs">>,
              LAMBDA f : Truthy(p, f))

\* if <Selected>: if self.<field>: <elems>
Part(p, fields, f, elems) == IF Selected(fields, f) /\ Truthy(p, f) THEN elems ELSE <<>>

GeneralElement(p, fields) ==
    IF Named(fields, "rule_class") \/ Named(fields, "travel_config_id")
    THEN <<Elem("General",
                (IF Named(fields, "rule_class") THEN TextChild("RuleClass", p.rule_class)
                 ELSE <<>>)
                \o (IF Named(fields, "travel_config_id")
                    THEN TextChild("TravelConfigID", p.travel_config_id) ELSE <<>>))>>
    ELSE <<>>

\* TravelProfile._add_sections_to_xml, for the fields of the detailed profile
add_sections_to_xml(p, fields) ==
    GeneralElement(p, fields)
    \o Part(p, fields, "has_no_passport", <<Leaf("HasNoPassport", "true")>>)
    \o Part(p, fields, "visas", <<Elem("Visas", MapSeq(Visa_to_xml, p.visas))>>)
    \o Part(p, fields, "air_preferences",
            IF p.air_preferences = None THEN <<>>
            ELSE AirPreferences_to_xml(p.air_preferences[1]))
    \o Part(p, fields, "rail_preferences",
            IF p.rail_preferences = None THEN <<>>
            ELSE RailPreferences_to_xml(p.rail_preferences[1]))
    \o Part(p, fields, "car_preferences",
            IF p.car_preferences = None THEN <<>>
            ELSE CarPreferences_to_xml(p.car_preferences[1]))
    \o Part(p, fields, "hotel_preferences",
            IF p.hotel_preferences = None THEN <<>>
            ELSE HotelPreferences_to_xml(p.hotel_preferences[1]))
    \o Part(p, fields, "tsa_info",
            IF p.tsa_info = None THEN <<>> ELSE TSAInfo_to_xml(p.tsa_info[1]))
    \o Part(p, fields, "loyalty_programs",
            <<Elem("AdvantageMemberships",
                   MapSeq(LAMBDA l : LoyaltyProgram_to_xml(l, "Membership"),
                          p.loyalty_programs))>>)

\* TravelProfile.to_update_xml: the children of the root
to_update_xml(p, req) ==
    add_sections_to_xml(p, IF req = None THEN get_non_empty_fields(p) ELSE req[1])

(***************************************************************************)
(* The parser of travel profile documents.                                 *)
(***************************************************************************)
\* element.find(tag): the first child of that tag, or None
find(elems, tag) ==
    LET hits == SelectSeq(elems, LAMBDA e : e.tag = tag)
    IN  IF hits = <<>> THEN None ELSE Some(hits[1])

\* element.findall(tag)
findall(elems, tag) == SelectSeq(elems, LAMBDA e : e.tag = tag)

\* element.findtext(tag, default)
findtext(elems, tag, default) ==
    IF find(elems, tag) = None THEN default ELSE find(elems, tag)[1].text

\* try: <field> = <Enum>(text)  except ValueError: pass
EnumOf(vocabulary, text) == IF text \in vocabulary THEN Some(text) ELSE None

\* try: datetime.strptime(text, "%Y-%m-%d").date()  except: pass
strptime(text) ==
    IF \E d \in Dates : strftime(d) = text
    THEN Some(CHOOSE d \in Dates : strftime(d) = text)
    ELSE None

\* a boolean element: findtext(tag, "false") == "true"
IsTrue(elems, tag) == findtext(elems, tag, "false") = "true"

parse_visa(e) ==
    LET visa_type_str == findtext(e.children, "VisaType", "Unknown")
    IN  [visa_nationality |-> findtext(e.children, "VisaNationality", ""),
         visa_number |-> findtext(e.children, "VisaNumber", ""),
         visa_type |-> IF visa_type_str \in VisaType THEN visa_type_str ELSE "Unknown",
         visa_country_issued |-> findtext(e.children, "VisaCountryIssued", ""),
         visa_date_issued |-> strptime(findtext(e.children, "VisaDateIssued", "")),
         visa_expiration |-> strptime(findtext(e.children, "VisaExpiration", ""))]

parse_tsa(e) ==
    [known_traveler_number |-> findtext(e.children, "PreCheckNumber", ""),
     gender |-> findtext(e.children, "Gender", ""),
     date_of_birth |-> strptime(findtext(e.children, "DateOfBirth", "")),
     redress_number |-> findtext(e.children, "RedressNumber", ""),
     no_middle_name |-> IsTrue(e.children, "NoMiddleName")]

parse_air(e) ==
    LET seat == find(e.children, "Seat")
    IN  [seat_preference |->
             IF seat = None THEN None
             ELSE EnumOf(SeatPreference,
                         findtext(seat[1].children, "InterRowPositionCode", "")),
         seat_section |->
             IF seat = None THEN None
             ELSE EnumOf(SeatSection, findtext(seat[1].children, "SectionPositionCode", "")),
         meal_preference |-> EnumOf(MealType, findtext(e.children, "MealCode", "")),
         home_airport |-> findtext(e.children, "HomeAirport", ""),
         air_other |-> findtext(e.children, "AirOther", "")]

parse_hotel(e) ==
    [smoking_preference |-> None,
     room_type |-> EnumOf(HotelRoomType, findtext(e.children, "RoomType", "")),
     hotel_other |-> findtext(e.children, "HotelOther", ""),
     prefer_foam_pillows |-> IsTrue(e.children, "PreferFoamPillows"),
     prefer_crib |-> IsTrue(e.children, "PreferCrib"),
     prefer_rollaway_bed |-> IsTrue(e.children, "PreferRollawayBed"),
     prefer_gym |-> IsTrue(e.children, "PreferGym"),
     prefer_pool |-> IsTrue(e.children, "PreferPool"),
     prefer_restaurant |-> FALSE,
     prefer_room_service |-> IsTrue(e.children, "PreferRoomService"),
     prefer_early_checkin |-> IsTrue(e.children, "PreferEarlyCheckIn")]

parse_car(e) ==
    [car_type |-> EnumOf(CarType, findtext(e.children, "CarType", "")),
     transmission |-> EnumOf(TransmissionType, findtext(e.children, "CarTransmission", "")),
     smoking_preference |->
         EnumOf(SmokingPreference, findtext(e.children, "CarSmokingCode", "")),
     gps |-> IsTrue(e.children, "CarGPS"),
     ski_rack |-> IsTrue(e.children, "CarSkiRack")]

parse_rail(e) ==
    [f \in {RailFields[i] : i \in 1..Len(RailFields)} |-> findtext(e.children, RailTag[f], "")]

\* program_type_map.get(vendor_type, LoyaltyProgramType.AIR)
program_type_map(vendor_type) ==
    IF vendor_type \in LoyaltyProgramType THEN vendor_type ELSE "Air"

parse_membership(e) ==
    [program_type |-> program_type_map(findtext(e.children, "VendorType", "")),
     vendor_code |-> findtext(e.children, "VendorCode", ""),
     account_number |-> findtext(e.children, "ProgramNumber", ""),
     status |-> "",
     status_benefits |-> "",
     point_total |-> "",
     segment_total |-> "",
     next_status |-> "",
     points_until_next_status |-> "",
     segments_until_next_status |-> "",
     expiration |-> strptime(findtext(e.children, "ExpirationDate", ""))]

\* the Membership elements the parser keeps
Recognized(e) ==
    /\ findtext(e.children, "VendorCode", "") # ""
    /\ findtext(e.children, "VendorType", "") # ""
    /\ findtext(e.children, "ProgramNumber", "") # ""

\* profile.<field> = <parsed> if the element is there, else the default
Parsed(root, tag, Op(_), default) ==
    IF find(root, tag) = None THEN default ELSE Op(find(root, tag)[1])

\* ConcurSDK._parse_travel_profile_xml, on the children of the root
parse_travel_profile_xml(root) ==
    [rule_class |->
         Parsed(root, "General", LAMBDA g : findtext(g.children, "RuleClass", ""),
                "Default Travel Class"),
     travel_config_id |->
         Parsed(root, "General", LAMBDA g : findtext(g.children, "TravelConfigID", ""), ""),
     has_no_passport |-> findtext(root, "HasNoPassport", "false") = "true",
     visas |->
         Parsed(root, "Visas", LAMBDA v : MapSeq(parse_visa, findall(v.children, "Visa")),
                <<>>),
     tsa_info |-> Parsed(root, "TSAInfo", LAMBDA e : Some(parse_tsa(e)), None),
     air_preferences |-> Parsed(root, "Air", LAMBDA e : Some(parse_air(e)), None),
     hotel_preferences |-> Parsed(root, "Hotel", LAMBDA e : Some(parse_hotel(e)), None),
     car_preferences |-> Parsed(root, "Car", LAMBDA e : Some(parse_car(e)), None),
     rail_preferences |-> Parsed(root, "Rail", LAMBDA e : Some(parse_rail(e)), None),
     loyalty_programs |->
         Parsed(root, "AdvantageMemberships",
                LAMBDA m : MapSeq(parse_membership,
                                  SelectSeq(findall(m.children, "Membership"), Recognized)),
                <<>>)]

(***************************************************************************)
(* The field-level specification: a travel profile with one group filled   *)
(* in is encoded, documents are parsed, a loyalty program is posted.       *)
(***************************************************************************)
MaxEntries == 1

\* Optional[<Enum>] over a sample of the vocabulary
Opt(S) == {None} \cup {Some(x) : x \in S}

SeqsUpTo(S, n) == UNION {[1..k -> S] : k \in 0..n}

AirValues(seats, sections, meals) ==
    [seat_preference : Opt(seats), seat_section : Opt(sections),
     meal_preference : Opt(meals), home_airport : {"", "SEA"}, air_other : {"", "quiet"}]

HotelValues(rooms) ==
    [smoking_preference : Opt({"NonSmoking"}), room_type : Opt(rooms),
     hotel_other : {"", "high floor"}, prefer_foam_pillows : BOOLEAN,
     prefer_crib : BOOLEAN, prefer_rollaway_bed : BOOLEAN, prefer_gym : BOOLEAN,
     prefer_pool : BOOLEAN, prefer_restaurant : BOOLEAN, prefer_room_service : BOOLEAN,
     prefer_early_checkin : BOOLEAN]

CarValues(types, transmissions, smokings) ==
    [car_type : Opt(types), transmission : Opt(transmissions),
     smoking_preference : Opt(smokings), gps : BOOLEAN, ski_rack : BOOLEAN]

RailValues == [{RailFields[i] : i \in 1..Len(RailFields)} -> {"", "any"}]

TSAValues ==
    [known_traveler_number : {"", "KTN1"}, gender : {"", "M", "f", "Male", "Other"},
     date_of_birth : Opt(Dates), redress_number : {"", "RN1"}, no_middle_name : BOOLEAN]

VisaValues(types) ==
    [visa_nationality : {"US"}, visa_number : {"V1"}, visa_type : types,
     visa_country_issued : {"IN"}, visa_date_issued : Opt(Dates),
     visa_expiration : Opt({CHOOSE d \in Dates : d.year > 2000})]

LoyaltyValues(types) ==
    [program_type : types, vendor_code : {"", "UA"}, account_number : {"", "12345"},
     status : {"", "Gold"}, status_benefits : {""}, point_total : {"", "5000"},
     segment_total : {""}, next_status : {""}, points_until_next_status : {""},
     segments_until_next_status : {""}, expiration : Opt({CHOOSE d \in Dates : d.year > 2000})]

\* TravelProfile(login_id): every field at its default
DefaultTravelProfile ==
    [rule_class |-> "Default Travel Class", travel_config_id |-> "",
     has_no_passport |-> FALSE, visas |-> <<>>, tsa_info |-> None,
     air_preferences |-> None, hotel_preferences |-> None, car_preferences |-> None,
     rail_preferences |-> None, loyalty_programs |-> <<>>]

With(f, S) == {[DefaultTravelProfile EXCEPT ![f] = v] : v \in S}

\* the profiles a caller builds: enum fields hold members of their vocabulary
DetailProfiles ==
    {[DefaultTravelProfile EXCEPT !.rule_class = r, !.travel_config_id = t,
                                  !.has_no_passport = h] :
        r \in {"", "Default Travel Class"}, t \in {"", "cfg-1"}, h \in BOOLEAN}
    \cup With("air_preferences", Opt(AirValues({"Window"}, {"ExitRow"}, {"VGML"})))
    \cup With("hotel_preferences", Opt(HotelValues({"King"})))
    \cup With("car_preferences", Opt(CarValues({"SUV"}, {"Manual"}, {"NonSmoking"})))
    \cup With("rail_preferences", Opt(RailValues))
    \cup With("tsa_info", Opt(TSAValues))
    \cup With("visas", SeqsUpTo(VisaValues({"Unknown", "SE"}), MaxEntries))
    \cup With("loyalty_programs", SeqsUpTo(LoyaltyValues(LoyaltyProgramType), MaxEntries))

\* what the backend may send: the same elements, with any text where the client has an enum
ServerProfiles ==
    With("air_preferences",
         Opt(AirValues({"Window", "Upper"}, {"ExitRow", "Wing"}, {"VGML", "XXML"})))
    \cup With("hotel_preferences",
              Opt({h \in HotelValues({"King", "Suite"}) :
                     h.smoking_preference = None /\ ~h.prefer_restaurant /\ ~h.prefer_crib
                     /\ ~h.prefer_pool /\ ~h.prefer_rollaway_bed}))
    \cup With("car_preferences",
              Opt(CarValues({"SUV", "Truck"}, {"Manual", "CVT"}, {"NonSmoking", "Vaping"})))
    \cup With("visas", SeqsUpTo(VisaValues({"Unknown", "SE", "Transit"}), MaxEntries))
    \cup With("tsa_info", Opt({v \in TSAValues : v.gender \in {"", "Male"}}))

\* a Membership as the backend sends it: VendorType is whatever text it holds
ServerMembership(m) ==
    Elem("Membership",
         TextChild("VendorCode", m.vendor_code)
         \o <<Leaf("VendorType", m.vendor_type)>>
         \o TextChild("ProgramNumber", m.program_number)
         \o DateChild("ExpirationDate", m.expiration))

ServerMemberships ==
    [vendor_code : {"", "UA"}, vendor_type : LoyaltyProgramType \cup {"Cruise"},
     program_number : {"", "12345"}, expiration : Opt({CHOOSE d \in Dates : d.year > 2000})]

\* the children of the documents the backend may send
ServerDocuments ==
    {to_update_xml(w, None) : w \in ServerProfiles}
    \cup {<<Leaf("HasNoPassport", "false"),
            Elem("AdvantageMemberships", MapSeq(ServerMembership, q))>> :
             q \in SeqsUpTo(ServerMemberships, MaxEntries)}

DetailRequests ==
    {None, Some(<<>>), Some(DetailFields)}
    \cup {Some(<<DetailFields[i]>>) : i \in 1..Len(DetailFields)}

\* TravelProfile.to_update_xml(fields_to_update) on the detailed profile
ToUpdateXml ==
    /\ doc = None
    /\ last.op = "idle"
    /\ \E req \in DetailRequests :
        /\ request' = req
        /\ doc' = Some([root |-> "ProfileResponse", from |-> "to_update_xml",
                        children |-> to_update_xml(profile, req)])
    /\ UNCHANGED <<cls, profile, decoded, sessionVars>>

\* the backend answers get_travel_profile with a document of its own; the caller
\* holds no profile of its own at that point
ServeDocument ==
    /\ doc = None
    /\ last.op = "idle"
    /\ profile = DefaultTravelProfile
    /\ \E children \in ServerDocuments :
        doc' = Some([root |-> "ProfileResponse", from |-> "server", children |-> children])
    /\ UNCHANGED <<cls, profile, request, decoded, sessionVars>>

\* ConcurSDK._parse_travel_profile_xml(response.text, login_id)
ParseTravelProfileXml ==
    /\ doc # None
    /\ cls = "TravelProfile"
    /\ doc[1].root = "ProfileResponse"
    /\ decoded = None
    /\ decoded' = Some(parse_travel_profile_xml(doc[1].children))
    /\ UNCHANGED <<cls, profile, request, doc, sessionVars>>

(***************************************************************************)
(* The encoders of the four travel preference groups in ConcurProfileSDK's *)
(* UserProfile (concur_profile_sdk_improved), and its to_update_xml on a   *)
(* UserProfile that holds a login id and travel preferences only.          *)
(***************************************************************************)
UserProfile_AirPreferences_to_xml(a) ==
    <<Elem("Air",
           (IF a.seat_preference # None \/ a.seat_section # None
            THEN <<Elem("Seat", EnumChild("InterRowPositionCode", a.seat_preference)
                                \o EnumChild("SectionPositionCode", a.seat_section))>>
            ELSE <<>>)
           \o EnumChild("MealCode", a.meal_preference)
           \o TextChild("HomeAirport", a.home_airport)
           \o TextChild("AirOther", a.air_other))>>

UserProfile_HotelPreferences_to_xml(h) ==
    LET has_preferences ==
            \/ h.smoking_preference # None
            \/ h.room_type # None
            \/ h.hotel_other # ""
            \/ h.prefer_foam_pillows
            \/ h.prefer_crib
            \/ h.prefer_rollaway_bed
            \/ h.prefer_gym
            \/ h.prefer_pool
            \/ h.prefer_restaurant
            \/ h.prefer_room_service
            \/ h.prefer_early_checkin
    IN  IF ~has_preferences THEN <<>>
        ELSE <<Elem("Hotel",
                    <<Elem("HotelMemberships", <<>>)>>
                    \o EnumChild("RoomType", h.room_type)
                    \o TextChild("HotelOther", h.hotel_other)
                    \o TrueChild("PreferFoamPillows", h.prefer_foam_pillows)
                    \o TrueChild("PreferCrib", h.prefer_crib)
                    \o TrueChild("PreferRollawayBed", h.prefer_rollaway_bed)
                    \o TrueChild("PreferGym", h.prefer_gym)
                    \o TrueChild("PreferPool", h.prefer_pool)
                    \o TrueChild("PreferRoomService", h.prefer_room_service)
                    \o TrueChild("PreferEarlyCheckIn", h.prefer_early_checkin))>>

UserProfile_CarPreferences_to_xml(c) ==
    LET has_preferences ==
            \/ c.car_type # None
            \/ c.transmission # None
            \/ c.smoking_preference # None
            \/ c.gps
            \/ c.ski_rack
    IN  IF ~has_preferences THEN <<>>
        ELSE <<Elem("Car", EnumChild("CarType", c.car_type)
                           \o EnumChild("CarTransmission", c.transmission)
                           \o EnumChild("CarSmokingCode", c.smoking_preference)
                           \o TrueChild("CarGPS", c.gps)
                           \o TrueChild("CarSkiRack", c.ski_rack))>>

UserProfile_RailPreferences_to_xml(r) ==
    <<Elem("Rail",
           TextChild("Seat", r.seat)
           \o TextChild("Coach", r.coach)
           \o TextChild("NoiseComfort", r.noise_comfort)
           \o TextChild("Bed", r.bed)
           \o TextChild("BedCategory", r.bed_category)
           \o TextChild("Berth", r.berth)
           \o TextChild("Deck", r.deck)
           \o TextChild("SpaceType", r.space_type)
           \o TextChild("FareSpaceComfort", r.fare_space_comfort)
           \o TextChild("SpecialMeals", r.special_meals)
           \o TextChild("Contingencies", r.contingencies))>>

PreferenceGroups ==
    <<"air_preferences", "rail_preferences", "car_preferences", "hotel_preferences">>

\* UserProfile._get_non_empty_fields on a profile of travel preferences only
UserProfile_non_empty_fields(p) == SelectSeq(PreferenceGroups, LAMBDA f : p[f] # None)

\* UserProfile._add_sections_to_xml: sections 12 to 15, the others being empty
UserProfile_add_sections(p, fields) ==
    (IF Selected(fields, "air_preferences") /\ p.air_preferences # None
     THEN UserProfile_AirPreferences_to_xml(p.air_preferences[1]) ELSE <<>>)
    \o (IF Selected(fields, "rail_preferences") /\ p.rail_preferences # None
        THEN UserProfile_RailPreferences_to_xml(p.rail_preferences[1]) ELSE <<>>)
    \o (IF Selected(fields, "car_preferences") /\ p.car_preferences # None
        THEN UserProfile_CarPreferences_to_xml(p.car_preferences[1]) ELSE <<>>)
    \o (IF Selected(fields, "hotel_preferences") /\ p.hotel_preferences # None
        THEN UserProfile_HotelPreferences_to_xml(p.hotel_preferences[1]) ELSE <<>>)

\* UserProfile.to_update_xml: the children of the root
UserProfile_update_xml(p, req) ==
    UserProfile_add_sections(p, IF req = None THEN UserProfile_non_empty_fields(p)
                                ELSE req[1])

PreferenceRequests ==
    {None} \cup {Some(<<PreferenceGroups[i]>>) : i \in 1..Len(PreferenceGroups)}

\* UserProfile(login_id, air_preferences=..., ...).to_update_xml(fields_to_update):
\* the caller hands the same preference objects to the other SDK's profile
UserProfileToUpdateXml ==
    /\ doc = None
    /\ last.op = "idle"
    /\ \E f \in Range(PreferenceGroups) : profile[f] # None
    /\ \E req \in PreferenceRequests :
        /\ request' = req
        /\ doc' = Some([root |-> "ProfileResponse", from |-> "UserProfile.to_update_xml",
                        children |-> UserProfile_update_xml(profile, req)])
    /\ cls' = "UserProfile"
    /\ UNCHANGED <<profile, decoded, sessionVars>>

(***************************************************************************)
(* update_loyalty_program of ConcurProfileSDK and the tool handlers that    *)
(* call it.  The instance holds no token when it is called, so the          *)
(* transport authenticates first.  env is what the network answers: tok1    *)
(* and tok2 to the token requests, st1 and st2 to the loyalty requests,     *)
(* body is the body of a 200 answer.                                        *)
(***************************************************************************)
LoyaltyTokenReplies == {"ok", "http_error"}

LoyaltyStatuses == {HTTP_OK, HTTP_UNAUTHORIZED, HTTP_NOT_FOUND, 500, NoResponse}

LoyaltyBodies == {"ok", "error_status", "malformed"}

LoyaltyEnvs ==
    {e \in [tok1 : LoyaltyTokenReplies, st1 : LoyaltyStatuses, tok2 : LoyaltyTokenReplies,
            st2 : LoyaltyStatuses, body : LoyaltyBodies] :
        /\ e.tok1 # "ok" => e.st1 = NoResponse
        /\ e.st1 # HTTP_UNAUTHORIZED => e.tok2 = "ok"
        /\ (e.st1 # HTTP_UNAUTHORIZED \/ e.tok2 # "ok") => e.st2 = NoResponse
        /\ (IF e.st1 = HTTP_UNAUTHORIZED THEN e.st2 ELSE e.st1) # HTTP_OK => e.body = "ok"}

Raised(exc, tokens, calls) ==
    [exc |-> exc, status |-> NoResponse, tokens |-> tokens, calls |-> calls]

Answered(status, tokens, calls) ==
    [exc |-> "none", status |-> status, tokens |-> tokens, calls |-> calls]

\* ConcurProfileSDK._make_request("POST", self.loyalty_url, data)
make_request(env) ==
    IF env.tok1 # "ok" THEN Raised("AuthenticationError", <<env.tok1>>, <<>>)
    ELSE IF env.st1 = NoResponse THEN Raised("ConcurProfileError", <<env.tok1>>, <<env.st1>>)
    ELSE IF env.st1 = HTTP_UNAUTHORIZED THEN
        IF env.tok2 # "ok"
        THEN Raised("AuthenticationError", <<env.tok1, env.tok2>>, <<env.st1>>)
        ELSE IF env.st2 = NoResponse
        THEN Raised("ConcurProfileError", <<env.tok1, env.tok2>>, <<env.st1, env.st2>>)
        ELSE Answered(env.st2, <<env.tok1, env.tok2>>, <<env.st1, env.st2>>)
    ELSE Answered(env.st1, <<env.tok1>>, <<env.st1>>)

\* LoyaltyResponse.from_xml(response.text)
LoyaltyResponse_from_xml(body) ==
    IF body = "ok" THEN "LoyaltyResponse(success=True)" ELSE "LoyaltyResponse(success=False)"

\* the required fields checked only once the request has been made
update_loyalty_program_late_check(l, env) ==
    LET r == make_request(env)
    IN  [r EXCEPT !.exc = IF l.vendor_code = "" \/ l.account_number = ""
                          THEN "ValidationError" ELSE @]

\* ConcurProfileSDK.update_loyalty_program(loyalty_program): what it raises or got
update_loyalty_program(l, env) ==
    IF l.vendor_code = "" \/ l.account_number = ""
    THEN Raised("ValidationError", <<>>, <<>>)
    ELSE make_request(env)

\* what the caller of update_loyalty_program gets from it
LoyaltyResult(r, body) ==
    IF r.exc # "none" THEN r.exc
    ELSE IF r.status # HTTP_OK THEN "LoyaltyResponse(success=False)"
    ELSE LoyaltyResponse_from_xml(body)

\* the output of the two tool handlers for the tool update_loyalty_program:
\* concur_profile_bot calls the method on a ConcurSDK, which does not have it;
\* gradio_bot_interface calls it on a ConcurProfileSDK
ToolOutput(front, result) ==
    IF front = "concur_profile_bot" THEN "Unexpected error"
    ELSE CASE result = "LoyaltyResponse(success=True)" -> "success"
           [] result = "LoyaltyResponse(success=False)" -> "Failed to update loyalty program"
           [] result = "ValidationError" -> "Validation error"
           [] result = "AuthenticationError" -> "Authentication error"
           [] OTHER -> "Concur API error"

Fronts == {"concur_profile_bot", "gradio_bot_interface"}

Posted(l) ==
    Some([root |-> "LoyaltyMembershipUpdate", from |-> "update_loyalty_program",
          children |-> update_loyalty_program_xml(l)])

\* update_loyalty_program on a program of the profile
UpdateLoyaltyProgram ==
    /\ doc = None
    /\ last.op = "idle"
    /\ profile.loyalty_programs # <<>>
    /\ \E env \in LoyaltyEnvs :
        LET l == profile.loyalty_programs[1]
            r == update_loyalty_program(l, env)
        IN  /\ last' = [last EXCEPT !.op = "update_loyalty_program",
                                    !.outcome = LoyaltyResult(r, env.body),
                                    !.reqs = <<[made |-> r, env |-> env]>>]
            /\ doc' = IF r.calls = <<>> THEN None ELSE Posted(l)
    /\ UNCHANGED <<config, session, now, lastAuth, cls, profile, request, decoded, callers>>

\* tool_handler, tool_name == "update_loyalty_program", in either front end
ToolUpdateLoyaltyProgram ==
    /\ doc = None
    /\ last.op = "idle"
    /\ profile.loyalty_programs # <<>>
    /\ \E env \in LoyaltyEnvs, front \in Fronts :
        LET l == profile.loyalty_programs[1]
            r == IF front = "concur_profile_bot" THEN Raised("AttributeError", <<>>, <<>>)
                 ELSE update_loyalty_program(l, env)
        IN  /\ last' = [last EXCEPT !.op = front,
                                    !.outcome = ToolOutput(front, LoyaltyResult(r, env.body)),
                                    !.reqs = <<[made |-> r, env |-> env]>>]
            /\ doc' = IF r.calls = <<>> THEN None ELSE Posted(l)
    /\ UNCHANGED <<config, session, now, lastAuth, cls, profile, request, decoded, callers>>

InitFields ==
    /\ config = [refresh_token |-> FALSE, username |-> TRUE, password |-> TRUE,
                 company_id |-> TRUE]
    /\ session = NoSession
    /\ now = 0
    /\ last = Idle
    /\ lastAuth = None
    /\ callers = NoCallers
    /\ cls = "TravelProfile"
    /\ profile \in DetailProfiles
    /\ request = None
    /\ doc = None
    /\ decoded = None

NextFields ==
    \/ ToUpdateXml
    \/ ServeDocument
    \/ ParseTravelProfileXml
    \/ UpdateLoyaltyProgram
    \/ ToolUpdateLoyaltyProgram
    \/ UserProfileToUpdateXml

SpecFields == InitFields /\ [][NextFields]_vars

(***************************************************************************)
(* Properties of the field-level encoder and of the parser.                *)
(***************************************************************************)
Encoded == doc # None /\ doc[1].from = "to_update_xml"

\* the elements of that tag at the top of the encoded document
Top(tag) == findall(doc[1].children, tag)

\* AirPreferences(), HotelPreferences(), CarPreferences(), RailPreferences()
DefaultAir ==
    [seat_preference |-> None, seat_section |-> None, meal_preference |-> None,
     home_airport |-> "", air_other |-> ""]

DefaultHotel ==
    [smoking_preference |-> None, room_type |-> None, hotel_other |-> "",
     prefer_foam_pillows |-> FALSE, prefer_crib |-> FALSE, prefer_rollaway_bed |-> FALSE,
     prefer_gym |-> FALSE, prefer_pool |-> FALSE, prefer_restaurant |-> FALSE,
     prefer_room_service |-> FALSE, prefer_early_checkin |-> FALSE]

DefaultCar ==
    [car_type |-> None, transmission |-> None, smoking_preference |-> None,
     gps |-> FALSE, ski_rack |-> FALSE]

DefaultRail == [f \in Range(RailFields) |-> ""]

\* C12: a profile whose HotelPreferences (CarPreferences) object is present with every
\* field at its default is encoded without any Hotel (Car) element, whatever the list
\* of groups asked for
C12_NoDefaultHotelOrCar ==
    Encoded =>
        /\ profile.hotel_preferences = Some(DefaultHotel) => Top("Hotel") = <<>>
        /\ profile.car_preferences = Some(DefaultCar) => Top("Car") = <<>>

C12_Witness ==
    /\ Encoded
    /\ request = Some(<<"hotel_preferences">>)
    /\ profile.hotel_preferences = Some(DefaultHotel)
    /\ doc[1].children = <<>>

\* C13: a profile whose AirPreferences (RailPreferences) object is present with every
\* field at its default is encoded without any Air (Rail) element, and no Air or Rail
\* element without children is ever written
C13_NoDefaultAirOrRail ==
    Encoded =>
        /\ profile.air_preferences = Some(DefaultAir) => Top("Air") = <<>>
        /\ profile.rail_preferences = Some(DefaultRail) => Top("Rail") = <<>>
        /\ \A e \in Range(Top("Air")) \cup Range(Top("Rail")) : e.children # <<>>

DeniedHotelTags == {"SmokingCode", "PreferRestaraunt", "PreferRestaurant"}

\* C14: whatever smoking_preference and prefer_restaurant hold, encoding writes neither
\* a SmokingCode nor a prefer-restaurant element under Hotel, and leaves the profile
\* (those two fields included) as it was
C14_HotelDenylist ==
    [][(doc = None /\ doc' # None /\ doc'[1].from = "to_update_xml") =>
          /\ profile' = profile
          /\ \A e \in Range(findall(doc'[1].children, "Hotel")) :
                Tags(e.children) \cap DeniedHotelTags = {}]_vars

C14_Witness ==
    /\ Encoded
    /\ Top("Hotel") # <<>>
    /\ profile.hotel_preferences[1].smoking_preference # None
    /\ profile.hotel_preferences[1].prefer_restaurant
    /\ ~profile.hotel_preferences[1].prefer_gym
    /\ profile.hotel_preferences[1].room_type = None

AnyAirFieldSet(a) ==
    \/ a.seat_preference # None
    \/ a.seat_section # None
    \/ a.meal_preference # None
    \/ a.home_airport # ""
    \/ a.air_other # ""

\* C16: an Air element written for preferences with any field set has exactly one Seat
\* child, and that Seat holds InterRowPositionCode exactly when the seat position is
\* set and SectionPositionCode exactly when the seat section is set, with their values
C16_SeatAlwaysNested ==
    Encoded =>
        \A e \in Range(Top("Air")) :
            LET a == profile.air_preferences[1]
            IN  AnyAirFieldSet(a) =>
                    /\ Len(findall(e.children, "Seat")) = 1
                    /\ find(e.children, "Seat")[1].children =
                           EnumChild("InterRowPositionCode", a.seat_preference)
                           \o EnumChild("SectionPositionCode", a.seat_section)

\* only the home airport is set, and the Air element still opens with an empty Seat
C16_Witness ==
    /\ Encoded
    /\ Top("Air") # <<>>
    /\ profile.air_preferences[1].home_airport # ""
    /\ profile.air_preferences[1].seat_preference = None
    /\ profile.air_preferences[1].seat_section = None
    /\ Top("Air")[1].children[1] = Elem("Seat", <<>>)

\* the tags of the fuller shape that the populated fields of a program call for
FullerShapeTags(l) ==
    {"VendorCode", "AccountNo"}
    \cup (IF l.status # "" THEN {"Status"} ELSE {})
    \cup (IF l.status_benefits # "" THEN {"StatusBenefits"} ELSE {})
    \cup (IF l.point_total # "" THEN {"PointTotal"} ELSE {})
    \cup (IF l.segment_total # "" THEN {"SegmentTotal"} ELSE {})
    \cup (IF l.expiration # None THEN {"Expiration"} ELSE {})

AbbreviatedShapeTags(l) ==
    {"VendorCode", "VendorType", "ProgramNumber", "ProgramCode"}
    \cup (IF l.expiration # None THEN {"ExpirationDate"} ELSE {})

\* C17: a Membership of the bulk document has the abbreviated shape, and the Membership
\* posted to the loyalty endpoint has every populated field of the fuller shape
C17_ShapeByDestination ==
    /\ Encoded =>
          \A m \in Range(Top("AdvantageMemberships")) :
              \A i \in 1..Len(m.children) :
                  Tags(<<m.children[i]>>) = {"Membership"}
                  /\ Tags(m.children[i].children) =
                         AbbreviatedShapeTags(profile.loyalty_programs[i])
    /\ (doc # None /\ doc[1].from = "update_loyalty_program") =>
          FullerShapeTags(profile.loyalty_programs[1])
              \subseteq Tags(doc[1].children[1].children)

\* the fields of a loyalty program that the bulk document carries
EchoedProgram(l) ==
    [program_type |-> l.program_type, vendor_code |-> l.vendor_code,
     account_number |-> l.account_number, expiration |-> l.expiration]

\* the fields of hotel preferences outside the denylist
EchoedHotel(h) ==
    IF h = None THEN None
    ELSE Some([h[1] EXCEPT !.smoking_preference = None, !.prefer_restaurant = FALSE])

\* the fields of a travel profile that both the encoder and the parser support
BothDirections(p) ==
    [has_no_passport |-> p.has_no_passport,
     visas |-> p.visas,
     tsa_info |-> p.tsa_info,
     air_preferences |-> p.air_preferences,
     hotel_preferences |-> EchoedHotel(p.hotel_preferences),
     car_preferences |-> p.car_preferences,
     rail_preferences |-> p.rail_preferences,
     loyalty_programs |-> MapSeq(EchoedProgram, p.loyalty_programs)]

AllGroups == request = None \/ request = Some(DetailFields)

\* C18: parsing the document a profile was encoded into, all groups included, gives
\* back the profile on every field supported in both directions
C18_RoundTrip ==
    (Encoded /\ AllGroups /\ decoded # None) =>
        BothDirections(decoded[1]) = BothDirections(profile)

Served == doc # None /\ doc[1].from = "server" /\ decoded # None

\* an element of the served document holds, under tag, a text outside the vocabulary
Unrecognized(elems, tag, vocabulary) ==
    find(elems, tag) # None /\ find(elems, tag)[1].text \notin vocabulary

\* the children of the first element of that tag in the served document
Under(tag) == IF Top(tag) = <<>> THEN <<>> ELSE Top(tag)[1].children

\* the Optional enum fields: an unrecognized text leaves the field unset
UnsetWhenUnrecognized ==
    LET d == decoded[1]
        seat == IF find(Under("Air"), "Seat") = None THEN <<>>
                ELSE find(Under("Air"), "Seat")[1].children
    IN  /\ Unrecognized(seat, "InterRowPositionCode", SeatPreference)
              => d.air_preferences[1].seat_preference = None
        /\ Unrecognized(seat, "SectionPositionCode", SeatSection)
              => d.air_preferences[1].seat_section = None
        /\ Unrecognized(Under("Air"), "MealCode", MealType)
              => d.air_preferences[1].meal_preference = None
        /\ Unrecognized(Under("Hotel"), "RoomType", HotelRoomType)
              => d.hotel_preferences[1].room_type = None
        /\ Unrecognized(Under("Car"), "CarType", CarType)
              => d.car_preferences[1].car_type = None
        /\ Unrecognized(Under("Car"), "CarTransmission", TransmissionType)
              => d.car_preferences[1].transmission = None
        /\ Unrecognized(Under("Car"), "CarSmokingCode", SmokingPreference)
              => d.car_preferences[1].smoking_preference = None

\* the enum fields of list entries: an unrecognized text puts no member of the
\* vocabulary in the field of the entry decoded from it
NothingSubstituted ==
    LET d == decoded[1]
        visas == findall(Under("Visas"), "Visa")
        memberships == SelectSeq(findall(Under("AdvantageMemberships"), "Membership"),
                                 Recognized)
    IN  /\ \A i \in 1..Len(visas) :
              Unrecognized(visas[i].children, "VisaType", VisaType)
                  => d.visas[i].visa_type \notin VisaType
        /\ \A i \in 1..Len(memberships) :
              Unrecognized(memberships[i].children, "VendorType", LoyaltyProgramType)
                  => d.loyalty_programs[i].program_type \notin LoyaltyProgramType

\* C19: parsing a document with an unrecognized text in any enum field leaves that
\* field without a value of the vocabulary
C19_UnknownEnumUnset == Served => (UnsetWhenUnrecognized /\ NothingSubstituted)

(***************************************************************************)
(* Properties of update_loyalty_program.                                   *)
(***************************************************************************)
LoyaltyOps == {"update_loyalty_program"} \cup Fronts

MissingRequired(l) == l.vendor_code = "" \/ l.account_number = ""

\* C24: update_loyalty_program on a program without a vendor code or without an
\* account number raises ValidationError, no token request and no loyalty
\* request having been made
C24_LoyaltyValidationBeforeNetwork ==
    (last.op = "update_loyalty_program" /\ MissingRequired(profile.loyalty_programs[1])) =>
        /\ last.outcome = "ValidationError"
        /\ last.reqs[1].made.tokens = <<>>
        /\ last.reqs[1].made.calls = <<>>

C24_Witness ==
    /\ last.op = "update_loyalty_program"
    /\ profile.loyalty_programs[1].vendor_code # ""
    /\ profile.loyalty_programs[1].account_number = ""
    /\ last.outcome = "ValidationError"
    /\ doc = None

\* the loyalty endpoint answers the request with a status other than 200
Rejects(env) == env.tok1 = "ok" /\ env.st1 \notin {HTTP_OK, NoResponse}

\* C25: when the loyalty endpoint rejects a valid request, the SDK's caller gets a
\* LoyaltyResponse with success = false, nothing being raised, and the tool
\* handlers report that failure result
C25_RejectionIsStructuredFailure ==
    (/\ last.op \in LoyaltyOps
     /\ ~MissingRequired(profile.loyalty_programs[1])
     /\ Rejects(last.reqs[1].env)) =>
        last.outcome = IF last.op = "update_loyalty_program"
                       THEN "LoyaltyResponse(success=False)"
                       ELSE "Failed to update loyalty program"

(***************************************************************************)
(* Two threads share one instance and enter a transport wrapper at the     *)
(* same time.  Nothing in the session manager takes a lock, so the         *)
(* statements of _ensure_authenticated and _authenticate interleave: each  *)
(* action below is one statement run by one thread.  The response to       *)
(* thread t carries the access token t and the geolocation t.              *)
(***************************************************************************)
ThreadTokenResponses ==
    {[kind |-> "ok", expires_in |-> e] : e \in ExpiresInValues}
    \cup {[kind |-> k, expires_in |-> 0] : k \in {"http_error", "no_geolocation"}}

\* a token of an earlier response, held past its expiry
ExpiredSession ==
    [access_token |-> Some(0), geolocation |-> Some(0),
     identity_base_url |-> Some(identity_base_url(0)), token_expiry |-> Some(0)]

At(t, pc) == callers[t].pc = pc

Goto(t, pc) == callers' = [callers EXCEPT ![t].pc = pc]

\* a thread calls a transport wrapper
Enter(t) ==
    /\ At(t, "out")
    /\ Goto(t, "ensure")
    /\ UNCHANGED <<config, session, now, last, lastAuth, codecVars>>

\* _ensure_authenticated: the test of its if
Observe(t) ==
    /\ At(t, "ensure")
    /\ Goto(t, IF ensure_authenticated(session, now) THEN "post" ELSE "done")
    /\ UNCHANGED <<config, session, now, last, lastAuth, codecVars>>

\* response = requests.post(...); response.raise_for_status(); response.json()
Post(t) ==
    /\ At(t, "post")
    /\ \E resp \in ThreadTokenResponses :
        callers' = [callers EXCEPT ![t].resp = resp,
                                   ![t].pc = IF resp.kind = "http_error" THEN "failed"
                                             ELSE "access_token"]
    /\ UNCHANGED <<config, session, now, last, lastAuth, codecVars>>

\* self._access_token = auth_data["access_token"]
SetAccessToken(t) ==
    /\ At(t, "access_token")
    /\ session' = [session EXCEPT !.access_token = Some(t)]
    /\ Goto(t, "geolocation")
    /\ UNCHANGED <<config, now, last, lastAuth, codecVars>>

\* self._geolocation = auth_data["geolocation"], a KeyError if the key is missing
SetGeolocation(t) ==
    /\ At(t, "geolocation")
    /\ IF callers[t].resp.kind = "no_geolocation"
       THEN Goto(t, "failed") /\ UNCHANGED session
       ELSE /\ session' = [session EXCEPT !.geolocation = Some(t)]
            /\ Goto(t, "identity_base_url")
    /\ UNCHANGED <<config, now, last, lastAuth, codecVars>>

\* self._identity_base_url = f"{self._geolocation}/profile/identity/v4"
SetIdentityBaseUrl(t) ==
    /\ At(t, "identity_base_url")
    /\ session' = [session EXCEPT
                     !.identity_base_url = Some(identity_base_url(session.geolocation[1]))]
    /\ Goto(t, "token_expiry")
    /\ UNCHANGED <<config, now, last, lastAuth, codecVars>>

\* self._token_expiry = datetime.now().replace(microsecond=0) + timedelta(...)
SetTokenExpiry(t) ==
    /\ At(t, "token_expiry")
    /\ session' = [session EXCEPT
                     !.token_expiry = Some(token_expiry(now, callers[t].resp.expires_in))]
    /\ callers' = [callers EXCEPT
                     ![t].pc = "done",
                     ![t].wrote = Some(token_expiry(now, callers[t].resp.expires_in))]
    /\ UNCHANGED <<config, now, last, lastAuth, codecVars>>

InitThreads ==
    /\ config = [refresh_token |-> FALSE, username |-> TRUE, password |-> TRUE,
                 company_id |-> TRUE]
    /\ session \in {NoSession, ExpiredSession}
    /\ now = 0
    /\ last = Idle
    /\ lastAuth = None
    /\ callers = NoCallers
    /\ CodecIdle

NextThreads ==
    \/ \E t \in Threads :
        \/ Enter(t)
        \/ Observe(t)
        \/ Post(t)
        \/ SetAccessToken(t)
        \/ SetGeolocation(t)
        \/ SetIdentityBaseUrl(t)
        \/ SetTokenExpiry(t)
    \/ Tick

SpecThreads == InitThreads /\ [][NextThreads]_vars

Finished(t) == callers[t].pc \in {"done", "failed"}

\* thread t authenticated: it ran every statement of _authenticate
Authenticated(t) == callers[t].pc = "done" /\ callers[t].wrote # None

\* the session holds what the response to thread t carried
SessionFrom(t) ==
    /\ session.access_token = Some(t)
    /\ session.geolocation = Some(t)
    /\ session.identity_base_url = Some(identity_base_url(t))
    /\ session.token_expiry = callers[t].wrote

\* C26: once two callers that both found the token missing or expired have
\* finished, and one of them authenticated, the stored token, geolocation,
\* identity base URL and expiry are those of one successful token response
C26_LastAuthenticateWins ==
    ((\A t \in Threads : Finished(t) /\ callers[t].resp # NoTokenResponse)
     /\ \E t \in Threads : Authenticated(t)) =>
        \E t \in Threads : Authenticated(t) /\ SessionFrom(t)

(***************************************************************************)
(* The two SDKs side by side.                                              *)
(***************************************************************************)
\* the Air, Rail, Car and Hotel elements at the top of a document
PreferenceElements(elems) ==
    SelectSeq(elems, LAMBDA e : e.tag \in {"Air", "Rail", "Car", "Hotel"})

EncodedByUserProfile == doc # None /\ doc[1].from = "UserProfile.to_update_xml"

\* C30: for the same preference objects and the same requested group,
\* UserProfile.to_update_xml of ConcurProfileSDK and TravelProfile.to_update_xml
\* of ConcurSDK write the same Air, Rail, Car and Hotel elements with the same
\* children.
C30_VariantsEncodeAlike ==
    EncodedByUserProfile =>
        doc[1].children = PreferenceElements(to_update_xml(profile, request))

====
